---------------------------- MODULE Spec2Model ----------------------------
(***************************************************************************)
(* Board synchronisation engine of EPatha/chess-piece-detection.          *)
(*                                                                         *)
(* The module models                                                       *)
(*   - OccupancyChessSystem of src/core/chess_logic.py (specification      *)
(*     Spec): sync_board, undo_last_move, update and _infer_move;          *)
(*   - the older OccupancyChessSystem of src/occupancy_system.py           *)
(*     (specification SpecOccupancySystem);                                *)
(*   - HybridManager and StateManager of src/chess_hybrid/core             *)
(*     (specification SpecHybrid).                                         *)
(* The rules engine (python-chess) the three of them call is modelled by   *)
(* the operators of the first section, as far as the callers use it.       *)
(***************************************************************************)
EXTENDS Integers, Sequences, FiniteSets, TLC

(***************************************************************************)
(* Squares, pieces and positions of the rules engine.                      *)
(* A square is 0..63 with a1 = 0, h1 = 7, a8 = 56 (chess.square).          *)
(* A piece is 0 (no piece), its type for White and its type + 8 for Black. *)
(***************************************************************************)
PAWN == 1
KNIGHT == 2
BISHOP == 3
ROOK == 4
QUEEN == 5
KING == 6

WHITE == TRUE
BLACK == FALSE

SQUARES == 0..63

square(file, rank) == rank * 8 + file
square_file(s) == s % 8
square_rank(s) == s \div 8

FILE_NAMES == <<"a", "b", "c", "d", "e", "f", "g", "h">>
RANK_NAMES == <<"1", "2", "3", "4", "5", "6", "7", "8">>
PIECE_SYMBOLS == <<"p", "n", "b", "r", "q", "k">>

square_name(s) == FILE_NAMES[square_file(s) + 1] \o RANK_NAMES[square_rank(s) + 1]

Piece(type, color) == IF color THEN type ELSE type + 8
piece_type(p) == p % 8
piece_color(p) == p < 8

Abs(x) == IF x < 0 THEN -x ELSE x
Sgn(x) == IF x > 0 THEN 1 ELSE IF x < 0 THEN -1 ELSE 0
Max(a, b) == IF a > b THEN a ELSE b

\* A move: chess.Move(from_square, to_square, promotion); promotion 0 is None.
Move(from, to, promo) == [from_square |-> from, to_square |-> to, promotion |-> promo]

\* Move.uci()
uci(m) ==
    square_name(m.from_square) \o square_name(m.to_square)
        \o (IF m.promotion = 0 THEN "" ELSE PIECE_SYMBOLS[m.promotion])

\* chess.Board(): the standard starting position.
StartPieces ==
    [s \in SQUARES |->
        LET back == <<ROOK, KNIGHT, BISHOP, QUEEN, KING, BISHOP, KNIGHT, ROOK>>
        IN  CASE square_rank(s) = 0 -> Piece(back[square_file(s) + 1], WHITE)
              [] square_rank(s) = 1 -> Piece(PAWN, WHITE)
              [] square_rank(s) = 6 -> Piece(PAWN, BLACK)
              [] square_rank(s) = 7 -> Piece(back[square_file(s) + 1], BLACK)
              [] OTHER -> 0]

\* A chess.Board: piece placement, side to move, castling rights (the rook
\* squares), the en-passant square (-1 is None) and the move stack, each move
\* with the position it was made in.
StartBoard ==
    [pieces |-> StartPieces, turn |-> WHITE,
     castling_rights |-> {0, 7, 56, 63}, ep_square |-> -1, move_stack |-> <<>>]

\* Board._board_state(): what push saves and pop restores.
board_state(b) ==
    [pieces |-> b.pieces, turn |-> b.turn,
     castling_rights |-> b.castling_rights, ep_square |-> b.ep_square]

\* The squares strictly between a and b on a common rank, file or diagonal.
between(a, b) ==
    LET df == square_file(b) - square_file(a)
        dr == square_rank(b) - square_rank(a)
        n == Max(Abs(df), Abs(dr))
        step == Sgn(dr) * 8 + Sgn(df)
    IN  {a + k * step : k \in 1..(n - 1)}

\* Whether the piece standing on s attacks t (Board.attacks_mask).
attacks(pieces, s, t) ==
    LET p == pieces[s]
        ty == piece_type(p)
        df == Abs(square_file(t) - square_file(s))
        dr == square_rank(t) - square_rank(s)
        clear == \A q \in between(s, t) : pieces[q] = 0
    IN  /\ s # t
        /\ CASE ty = PAWN -> df = 1 /\ dr = (IF piece_color(p) THEN 1 ELSE -1)
             [] ty = KNIGHT -> {df, Abs(dr)} = {1, 2}
             [] ty = KING -> df <= 1 /\ Abs(dr) <= 1
             [] ty = BISHOP -> df = Abs(dr) /\ clear
             [] ty = ROOK -> (df = 0 \/ dr = 0) /\ clear
             [] ty = QUEEN -> (df = Abs(dr) \/ df = 0 \/ dr = 0) /\ clear
             [] OTHER -> FALSE

\* Board.is_attacked_by(color, t)
is_attacked_by(pieces, color, t) ==
    \E s \in SQUARES :
        pieces[s] # 0 /\ piece_color(pieces[s]) = color /\ attacks(pieces, s, t)

\* Board.king(color): the square of the king, -1 when there is none.
king(pieces, color) ==
    IF \E s \in SQUARES : pieces[s] = Piece(KING, color)
    THEN CHOOSE s \in SQUARES : pieces[s] = Piece(KING, color)
    ELSE -1

\* Board.is_check()
is_check(b) ==
    LET k == king(b.pieces, b.turn)
    IN  k # -1 /\ is_attacked_by(b.pieces, ~b.turn, k)

\* Board.is_en_passant(move)
is_en_passant(b, m) ==
    /\ b.ep_square = m.to_square
    /\ piece_type(b.pieces[m.from_square]) = PAWN
    /\ Abs(m.to_square - m.from_square) \in {7, 9}
    /\ b.pieces[m.to_square] = 0

\* Board.is_capture(move)
is_capture(b, m) ==
    \/ \E s \in {m.from_square, m.to_square} :
          b.pieces[s] # 0 /\ piece_color(b.pieces[s]) # b.turn
    \/ is_en_passant(b, m)

\* Board.is_castling(move)
is_castling(b, m) ==
    /\ piece_type(b.pieces[m.from_square]) = KING
    /\ \/ Abs(square_file(m.from_square) - square_file(m.to_square)) > 1
       \/ b.pieces[m.to_square] = Piece(ROOK, b.turn)

\* Board.clean_castling_rights(), standard chess: a right counts while the rook
\* stands on its corner and the king on its e-file square.
clean_castling_rights(b) ==
    {r \in b.castling_rights :
        LET c == r < 8
        IN  /\ r \in {0, 7, 56, 63}
            /\ b.pieces[r] = Piece(ROOK, c)
            /\ b.pieces[IF c THEN 4 ELSE 60] = Piece(KING, c)}

\* Board.generate_castling_moves(): the king's two-square moves of the side to
\* move, as a set; the h-side move is enumerated before the a-side move.
castling_moves(b) ==
    LET k == IF b.turn THEN 4 ELSE 60
        ok(r) ==
            LET a_side == r < k
                king_to == IF a_side THEN k - 2 ELSE k + 2
                rook_to == IF a_side THEN k - 1 ELSE k + 1
                path == (between(k, king_to) \cup between(r, rook_to)
                            \cup {king_to, rook_to}) \ {k, r}
            IN  /\ \A q \in path : b.pieces[q] = 0
                /\ \A q \in between(k, king_to) \cup {k, king_to} :
                      ~is_attacked_by(b.pieces, ~b.turn, q)
    IN  {Move(k, IF r < k THEN k - 2 ELSE k + 2, 0) :
            r \in {r \in clean_castling_rights(b) : (r < 8) = b.turn /\ ok(r)}}

\* Board.push(move) on the position: the move is made without any legality test.
push(b, m) ==
    LET p == b.pieces[m.from_square]
        ty == piece_type(p)
        diff == m.to_square - m.from_square
        down == IF b.turn THEN -8 ELSE 8
        castle == ty = KING /\ Abs(diff) = 2 /\ square_rank(m.from_square) = square_rank(m.to_square)
        ep == ty = PAWN /\ m.to_square = b.ep_square /\ Abs(diff) \in {7, 9}
                /\ b.pieces[m.to_square] = 0
        placed == IF m.promotion # 0 THEN Piece(m.promotion, b.turn) ELSE p
        rook_from == IF diff > 0 THEN m.from_square + 3 ELSE m.from_square - 4
        rook_to == IF diff > 0 THEN m.from_square + 1 ELSE m.from_square - 1
        pieces1 == [b.pieces EXCEPT ![m.from_square] = 0, ![m.to_square] = placed]
        pieces2 == IF ep THEN [pieces1 EXCEPT ![m.to_square + down] = 0]
                   ELSE IF castle
                        THEN [pieces1 EXCEPT ![rook_from] = 0,
                                             ![rook_to] = Piece(ROOK, b.turn)]
                        ELSE pieces1
        rights1 == b.castling_rights \ {m.from_square, m.to_square}
        rights2 == IF ty = KING
                   THEN {r \in rights1 : (r < 8) # b.turn}
                   ELSE rights1
        ep_new == IF ty = PAWN /\ diff = 16 /\ square_rank(m.from_square) = 1
                  THEN m.from_square + 8
                  ELSE IF ty = PAWN /\ diff = -16 /\ square_rank(m.from_square) = 6
                       THEN m.from_square - 8
                       ELSE -1
    IN  [pieces |-> pieces2, turn |-> ~b.turn,
         castling_rights |-> rights2, ep_square |-> ep_new,
         move_stack |-> Append(b.move_stack, [move |-> m, state |-> board_state(b)])]

\* Board.pop(): the last move is taken back and the saved position restored;
\* the caller sees to it that the stack is not empty (IndexError otherwise).
pop(b) ==
    LET top == b.move_stack[Len(b.move_stack)]
    IN  [pieces |-> top.state.pieces, turn |-> top.state.turn,
         castling_rights |-> top.state.castling_rights,
         ep_square |-> top.state.ep_square,
         move_stack |-> SubSeq(b.move_stack, 1, Len(b.move_stack) - 1)]

\* Board.is_pseudo_legal(move)
is_pseudo_legal(b, m) ==
    LET p == b.pieces[m.from_square]
        ty == piece_type(p)
        target == b.pieces[m.to_square]
        up == IF b.turn THEN 8 ELSE -8
        last == square_rank(m.to_square) \in {0, 7}
        pawn_capture ==
            /\ attacks(b.pieces, m.from_square, m.to_square)
            /\ target # 0
        pawn_single ==
            m.to_square = m.from_square + up /\ target = 0
        pawn_double ==
            /\ m.to_square = m.from_square + 2 * up
            /\ target = 0
            /\ b.pieces[m.from_square + up] = 0
            /\ square_rank(m.to_square) \in (IF b.turn THEN {2, 3} ELSE {5, 4})
        pawn_ep ==
            /\ b.ep_square > 0
            /\ m.to_square = b.ep_square
            /\ target = 0
            /\ attacks(b.pieces, m.from_square, m.to_square)
            /\ square_rank(m.from_square) = (IF b.turn THEN 4 ELSE 3)
    IN  /\ p # 0
        /\ piece_color(p) = b.turn
        /\ m.promotion # 0 =>
              /\ ty = PAWN
              /\ square_rank(m.to_square) = (IF b.turn THEN 7 ELSE 0)
        /\ \/ ty = KING /\ m \in castling_moves(b)
           \/ /\ ~(target # 0 /\ piece_color(target) = b.turn)
              /\ IF ty = PAWN
                 THEN \/ (pawn_capture \/ pawn_single \/ pawn_double)
                            /\ (last <=> m.promotion # 0)
                      \/ pawn_ep /\ m.promotion = 0
                 ELSE attacks(b.pieces, m.from_square, m.to_square)

\* Board.is_into_check(move): the mover's king is attacked after the move.
is_into_check(b, m) ==
    LET after == push(b, m).pieces
        k == king(after, b.turn)
    IN  k # -1 /\ is_attacked_by(after, ~b.turn, k)

\* move in Board.legal_moves (Board.is_legal)
is_legal(b, m) == is_pseudo_legal(b, m) /\ ~is_into_check(b, m)

\* The promotions a move from f to t may carry, in the order the engine
\* enumerates them.
promotions(b, f, t) ==
    IF piece_type(b.pieces[f]) = PAWN /\ square_rank(t) \in {0, 7}
    THEN {QUEEN, ROOK, BISHOP, KNIGHT}
    ELSE {0}

\* The moves from a square of froms to a square of tos, with the promotions
\* they may carry: the moves the engine's enumeration chooses among.
moves_between(b, froms, tos) ==
    {m \in {Move(x[1], x[2], x[3]) :
                x \in froms \X tos \X {0, QUEEN, ROOK, BISHOP, KNIGHT}} :
        m.promotion \in promotions(b, m.from_square, m.to_square)}

all_moves(b) ==
    moves_between(b, {s \in SQUARES : b.pieces[s] # 0 /\ piece_color(b.pieces[s]) = b.turn},
                  SQUARES)

\* Board.legal_moves as a set, and its members from froms to tos.
legal_moves(b) == {m \in all_moves(b) : is_legal(b, m)}

legal_moves_between(b, froms, tos) ==
    {m \in moves_between(b, froms, tos) : is_legal(b, m)}

\* The place of a legal move in the order Board.legal_moves yields the moves:
\* piece moves from the highest square down (the king's first when in check),
\* castling (h-side first), pawn captures, single and double pawn advances,
\* en passant; within a piece, destinations from the highest square down, and
\* promotions as queen, rook, bishop, knight.
enumeration_rank(b, m) ==
    LET ty == piece_type(b.pieces[m.from_square])
        group ==
            CASE ty = KING /\ is_castling(b, m) -> 2
              [] ty = KING -> IF is_check(b) THEN 0 ELSE 1
              [] ty # PAWN -> 1
              [] is_en_passant(b, m) -> 6
              [] square_file(m.from_square) # square_file(m.to_square) -> 3
              [] Abs(m.to_square - m.from_square) = 8 -> 4
              [] OTHER -> 5
        promo == CASE m.promotion = ROOK -> 1
                   [] m.promotion = BISHOP -> 2
                   [] m.promotion = KNIGHT -> 3
                   [] OTHER -> 0
    IN  group * 1000000 + (63 - m.from_square) * 10000
            + (63 - m.to_square) * 10 + promo

\* The moves of S as the list a loop over Board.legal_moves finds them in.
RECURSIVE in_order(_, _)
in_order(b, S) ==
    IF S = {} THEN <<>>
    ELSE LET m == CHOOSE x \in S :
                    \A y \in S : enumeration_rank(b, x) <= enumeration_rank(b, y)
         IN  <<m>> \o in_order(b, S \ {m})

\* Board.is_checkmate()
is_checkmate(b) == is_check(b) /\ \A m \in all_moves(b) : ~is_legal(b, m)

PIECE_LETTERS == <<"", "N", "B", "R", "Q", "K">>

\* What Board.san raises when no piece stands on the move's from-square.
SanError == "AssertionError"

\* Board.san(move), the move itself: the piece letter, the file or rank that
\* tells the mover from the others of its kind that may go to the same square,
\* "x" for a capture, the destination and the promotion.
san_move(b, m, others, capture) ==
    LET ty == piece_type(b.pieces[m.from_square])
        on_rank == \E f \in others : square_rank(f) = square_rank(m.from_square)
        on_file == \E f \in others : square_file(f) = square_file(m.from_square)
        column == others # {} /\ (on_rank \/ ~on_file)
        row == others # {} /\ on_file
        origin ==
            IF ty = PAWN
            THEN IF capture THEN FILE_NAMES[square_file(m.from_square) + 1] ELSE ""
            ELSE PIECE_LETTERS[ty]
                    \o (IF column THEN FILE_NAMES[square_file(m.from_square) + 1] ELSE "")
                    \o (IF row THEN RANK_NAMES[square_rank(m.from_square) + 1] ELSE "")
    IN  IF is_castling(b, m)
        THEN IF square_file(m.to_square) < square_file(m.from_square)
             THEN "O-O-O" ELSE "O-O"
        ELSE origin \o (IF capture THEN "x" ELSE "") \o square_name(m.to_square)
                \o (IF m.promotion # 0 THEN "=" \o PIECE_LETTERS[m.promotion] ELSE "")

\* Board.san(move), the suffix: "#" or "+" by the position after the move.
san_suffix(after) ==
    IF is_check(after)
    THEN IF is_checkmate(after) THEN "#" ELSE "+"
    ELSE ""

\* Board.san(move): standard algebraic notation of a move in position b.
san(b, m) ==
    IF ~is_castling(b, m) /\ b.pieces[m.from_square] = 0
    THEN SanError
    ELSE san_move(b, m,
                  {f \in SQUARES \ {m.from_square} :
                      /\ b.pieces[f] = b.pieces[m.from_square]
                      /\ is_legal(b, Move(f, m.to_square, 0))},
                  is_capture(b, m))
            \o san_suffix(push(b, m))

(***************************************************************************)
(* The camera.  The vision thread hands update one occupancy grid per      *)
(* frame; the grids of a run are those of a few hands-on scenes, each a    *)
(* list of changes to the physical board (the squares whose occupancy      *)
(* flips), starting from the standard set-up.                              *)
(***************************************************************************)
Scenes ==
    { \* 1.e4 d5 2.exd5 Qxd5, a capture being a lifted piece
      <<{12, 28}, {51, 35}, {28}, {59}>>,
      \* Black moves first and too far: the pawn e7 set on e4, then put on e5
      <<{52, 28}, {28, 36}>>,
      \* the knight g1 is lifted, then put down on f3; then Nb8-c6
      <<{6}, {21}, {57, 42}>>,
      \* 1.e4 a6 2.e5 d5 3.exd6 e.p. in three stages: e5 lifted, put on d6,
      \* d5 taken off
      <<{12, 28}, {48, 40}, {28, 36}, {51, 35}, {36}, {43}, {35}>>,
      \* White alone: Nf3, e3, Be2, then O-O in four stages: king lifted, put
      \* on g1, rook lifted, put on f1
      <<{6, 21}, {12, 20}, {5, 12}, {4}, {6}, {7}, {5}>>,
      \* a white pawn set on h6, hxg7, Ng8-f6, then g7-g8
      <<{15, 47}, {47}, {62, 45}, {54, 62}>>,
      \* the same, ending with the pawn g7 lifted (it takes on h8 or f8)
      <<{15, 47}, {47}, {62, 45}, {54}>>,
      \* the knight b1 set on e6, then lifted (it takes on f8, d8, g7 or c7)
      <<{1, 44}, {44}>>,
      \* the knight b1 set on d5, then lifted (it takes on e7 or c7)
      <<{1, 35}, {35}>>,
      \* 1.d4, then a hand over h4 and away again
      <<{11, 27}, {31}, {31}>> }

\* How many forced (debug_mode) relocations a run makes at most.
MaxForced == 1

\* How many commands (start game, undo) the operator gives at most.
MaxCommands == 2

\* debounce_time, in units of 1.5 s.
DebounceTime == 1

\* last_occupancy_grid = None
NoGrid == <<>>
\* last_move = None, and _infer_move returning None
NoMove == Move(-1, -1, 0)
\* No move accepted last.
\* HybridManager.__init__: the frames required to confirm a change
STABILITY_THRESHOLD == 5

NoPrior == [pieces |-> <<>>, turn |-> TRUE, move_list |-> <<>>]

VARIABLES
    \* OccupancyChessSystem
    board,                \* self.board
    move_list,            \* self.move_list
    last_move,            \* self.last_move
    last_occupancy_grid,  \* self.last_occupancy_grid
    expected_occupancy,   \* self.expected_occupancy
    stable_elapsed,       \* time.time() - self.stable_start_time, up to DebounceTime + 1
    \* the last call
    op,                   \* the method called last
    outcome,              \* the branch it took
    ret,                  \* what it returned
    logs,                 \* the log lines it returned
    spoken,               \* the texts it passed to speak()
    \* the camera
    played,               \* the changes made to the physical board so far
    camera,               \* the grid of the current frame: occupancy for
                          \* OccupancyChessSystem, colours for HybridManager
    forced,               \* forced relocations made so far
    commands,             \* commands given so far
    seen_grid,            \* the grid the system was handed last
    prior,                \* the position before the move accepted last
    seen_elapsed,         \* for how long it has been handed that grid, up to DebounceTime + 1
    \* HybridManager and its StateManager (whose board is board)
    game_history,         \* state_manager.game_history
    current_stable_grid,  \* self.current_stable_grid
    pending_grid,         \* self.pending_grid
    stability_counter,    \* self.stability_counter
    is_processing,        \* self.is_processing
    signals,              \* the Qt signals the last call emitted
    stability_threshold,  \* self.STABILITY_THRESHOLD
    auto_sync_on_reset,   \* self.auto_sync_on_reset
    current_yolo_grid,    \* self.current_yolo_grid
    seen_frames,          \* for how many frames in a row it has been handed seen_grid
    in_process_change,    \* the calls of _process_change in progress
    \* VisionWorker (whose chess_system is the OccupancyChessSystem above)
    state,                \* self.state
    calibration_matrix,   \* self.calibration_matrix: None, or the rotation it was built with
    request_calibration,  \* self.request_calibration
    rotation_index,       \* self.rotation_index
    last_raw_corners,     \* self.last_raw_corners: None, or the corners found last
    in_update,            \* the vision thread is at its call of chess_system.update
    last_grid             \* main_without_ai.py: self.last_grid

core_vars ==
    <<board, move_list, last_move, last_occupancy_grid,
      expected_occupancy, stable_elapsed>>
call_vars == <<op, outcome, ret, logs, spoken>>
camera_vars == <<played, camera, forced, commands, prior, seen_grid, seen_elapsed>>
hybrid_vars ==
    <<game_history, current_stable_grid, pending_grid, stability_counter,
      is_processing, signals>>
settings_vars ==
    <<stability_threshold, auto_sync_on_reset, current_yolo_grid, seen_frames,
      in_process_change>>
worker_vars ==
    <<state, calibration_matrix, request_calibration, rotation_index,
      last_raw_corners, in_update, last_grid>>
vars == <<core_vars, call_vars, camera_vars, hybrid_vars, settings_vars, worker_vars>>

\* The visual grid's cell (r, c) is the square of file c and rank 7 - r.
to_square(r, c) == square(c, 7 - r)

\* OccupancyChessSystem._get_board_occupancy
_get_board_occupancy(b) ==
    [r \in 0..7 |-> [c \in 0..7 |-> b.pieces[square(c, 7 - r)] # 0]]

\* The grid of the physical board after the changes in p.
RECURSIVE Flipped(_)
Flipped(p) ==
    IF p = <<>> THEN {}
    ELSE LET rest == Flipped(Tail(p))
         IN  (rest \ Head(p)) \cup (Head(p) \ rest)

SceneGrid(p) ==
    LET start == _get_board_occupancy(StartBoard)
        f == Flipped(p)
    IN  [r \in 0..7 |-> [c \in 0..7 |-> start[r][c] # (to_square(r, c) \in f)]]

Saturate(t) == IF t > DebounceTime THEN DebounceTime + 1 ELSE t

\* The system is handed grid g: the camera's record of what it has seen.
See(g, dt) ==
    /\ seen_grid' = g
    /\ seen_elapsed' = IF g = seen_grid THEN Saturate(seen_elapsed + dt) ELSE 0

\* ", ".join(strings)
RECURSIVE Join(_, _)
Join(strings, sep) ==
    IF strings = <<>> THEN ""
    ELSE IF Len(strings) = 1 THEN strings[1]
    ELSE strings[1] \o sep \o Join(Tail(strings), sep)

\* The cells (r, c) of a grid in the order of "for r in range(8): for c in range(8)".
Cells == [i \in 1..64 |-> <<(i - 1) \div 8, (i - 1) % 8>>]

\* sum([sum(r) for r in grid])
Occupied(grid) == Cardinality({i \in 1..64 : grid[Cells[i][1]][Cells[i][2]]})

\* The piece values of the material-gain heuristic (piece_values.get(type, 0)).
piece_values(type) ==
    CASE type = QUEEN -> 9
      [] type = ROOK -> 5
      [] type = BISHOP -> 3
      [] type = KNIGHT -> 3
      [] type = PAWN -> 1
      [] OTHER -> 0

\* The loop "for m in candidates" of the ambiguity resolution from candidate i
\* on: the first candidate whose captured piece is worth more than max_val.
\* The loop taking a later candidate of equal value (val >= max_val).
RECURSIVE BestCaptureTakingLast(_, _, _, _, _)
BestCaptureTakingLast(b, candidates, i, best_move, max_val) ==
    IF i > Len(candidates) THEN [best_move |-> best_move, max_val |-> max_val]
    ELSE LET m == candidates[i]
             captured_piece == b.pieces[m.to_square]
             val == IF captured_piece # 0
                    THEN piece_values(piece_type(captured_piece)) ELSE 0
         IN  IF val >= max_val
             THEN BestCaptureTakingLast(b, candidates, i + 1, m, val)
             ELSE BestCaptureTakingLast(b, candidates, i + 1, best_move, max_val)

RECURSIVE BestCapture(_, _, _, _, _)
BestCapture(b, candidates, i, best_move, max_val) ==
    IF i > Len(candidates) THEN [best_move |-> best_move, max_val |-> max_val]
    ELSE LET m == candidates[i]
             captured_piece == b.pieces[m.to_square]
             val == IF captured_piece # 0
                    THEN piece_values(piece_type(captured_piece)) ELSE 0
         IN  IF val > max_val
             THEN BestCapture(b, candidates, i + 1, m, val)
             ELSE BestCapture(b, candidates, i + 1, best_move, max_val)

\* The trial loop returning its first move whatever the occupancy it gives.
TrialLoopTakingFirst(b, moves, visual_grid) ==
    IF moves = <<>> THEN [move |-> NoMove, board |-> b]
    ELSE [move |-> Head(moves), board |-> pop(push(b, Head(moves)))]

\* The trial loop that leaves its trial moves on the board.
RECURSIVE TrialLoopWithoutPop(_, _, _)
TrialLoopWithoutPop(b, moves, visual_grid) ==
    IF moves = <<>> THEN [move |-> NoMove, board |-> b]
    ELSE LET pushed == push(b, Head(moves))
         IN  IF _get_board_occupancy(pushed) = visual_grid
             THEN [move |-> Head(moves), board |-> pushed]
             ELSE TrialLoopWithoutPop(pushed, Tail(moves), visual_grid)

\* The loops of the castling and en-passant cases: each move in turn is pushed
\* on the live board, the occupancy taken, and the move popped again; the first
\* move whose occupancy is the visual grid is returned.
RECURSIVE TrialLoop(_, _, _)
TrialLoop(b, moves, visual_grid) ==
    IF moves = <<>> THEN [move |-> NoMove, board |-> b]
    ELSE LET pushed == push(b, Head(moves))
             temp_occ == _get_board_occupancy(pushed)
             popped == pop(pushed)
         IN  IF temp_occ = visual_grid
             THEN [move |-> Head(moves), board |-> popped]
             ELSE TrialLoop(popped, Tail(moves), visual_grid)

\* "Check for promotion on capture": move.promotion = chess.QUEEN
WithQueen(b, src, m) ==
    IF piece_type(b.pieces[src]) = PAWN /\ square_rank(m.to_square) \in {0, 7}
    THEN [m EXCEPT !.promotion = QUEEN]
    ELSE m

\* The candidates without the tests on the move: any legal move from src.
capture_candidates_any_move(b, src, visual_grid) ==
    in_order(b, legal_moves_between(b, {src}, SQUARES))

\* The candidates drawn from the legal moves of the side whose piece left src
capture_candidates_of_either_side(b, src, visual_grid) ==
    LET own == IF b.pieces[src] = 0 THEN b
               ELSE [b EXCEPT !.turn = piece_color(b.pieces[src])]
    IN  in_order(own, {m \in legal_moves_between(own, {src}, SQUARES) :
                        /\ is_capture(own, m)
                        /\ visual_grid[7 - square_rank(m.to_square)]
                                      [square_file(m.to_square)]})

\* _infer_move, the candidates of the capture case: the legal captures from src
\* whose destination is occupied in the visual grid, in enumeration order.
capture_candidates(b, src, visual_grid) ==
    in_order(b, {m \in legal_moves_between(b, {src}, SQUARES) :
                    /\ is_capture(b, m)
                    /\ visual_grid[7 - square_rank(m.to_square)]
                                  [square_file(m.to_square)]})

\* What _infer_move returns: the move (NoMove for None), the log lines added,
\* and the board as the call leaves it.
Inferred(move, lines, b) == [move |-> move, logs |-> lines, board |-> b]

\* _infer_move, "Handle ambiguity": the capture chosen among the candidates.
resolve_capture(b, src, candidates, debug_mode) ==
    LET best == BestCapture(b, candidates, 1, NoMove, -1)
        ambiguous ==
            "Ambiguous capture from " \o square_name(src)
                \o ". Candidates: ['"
                \o Join([i \in 1..Len(candidates) |-> uci(candidates[i])], "', '")
                \o "']"
    IN  IF debug_mode
        THEN Inferred(NoMove,
                <<"DEBUG: Capture detected (Source disappeared). Target unknown in Debug Mode.">>,
                b)
        ELSE IF Len(candidates) = 1
        THEN Inferred(WithQueen(b, src, candidates[1]), <<>>, b)
        ELSE IF Len(candidates) > 1
        THEN IF best.best_move # NoMove
             THEN Inferred(WithQueen(b, src, best.best_move),
                           <<ambiguous,
                             "Resolved ambiguity: Choosing " \o uci(best.best_move)
                                \o " (Captures value " \o ToString(best.max_val) \o ")">>,
                           b)
             ELSE Inferred(NoMove, <<ambiguous>>, b)
        ELSE Inferred(NoMove, <<>>, b)

\* The move a trial loop found, and the board it leaves.
Found(found) == Inferred(found.move, <<>>, found.board)

\* The squares of a set of cells of the grid.
cell_square(i) == to_square(Cells[i][1], Cells[i][2])

\* _infer_move, by the squares that emptied (sources) and filled (targets).
infer_by_diff(b, sources, targets, visual_grid, debug_mode) ==
    CASE Cardinality(sources) = 1 /\ Cardinality(targets) = 1 ->
            \* Case 1: standard move
            LET src == cell_square(CHOOSE i \in sources : TRUE)
                dst == cell_square(CHOOSE i \in targets : TRUE)
            IN  IF ~debug_mode /\ piece_type(b.pieces[src]) = PAWN
                    /\ square_rank(dst) \in {0, 7}
                THEN Inferred(Move(src, dst, QUEEN), <<>>, b)
                ELSE Inferred(Move(src, dst, 0), <<>>, b)
      [] Cardinality(sources) = 1 /\ Cardinality(targets) = 0 ->
            \* Case 2: capture
            resolve_capture(b, cell_square(CHOOSE i \in sources : TRUE),
                capture_candidates(b, cell_square(CHOOSE i \in sources : TRUE),
                                   visual_grid),
                debug_mode)
      [] Cardinality(sources) = 2 /\ Cardinality(targets) = 2 ->
            \* Case 3: castling
            Found(TrialLoop(b,
                    in_order(b, {m \in legal_moves_between(b,
                                        {king(b.pieces, b.turn)} \ {-1}, SQUARES) :
                                    is_castling(b, m)}),
                    visual_grid))
      [] Cardinality(sources) = 2 /\ Cardinality(targets) = 1 ->
            \* Case 4: en passant
            Found(TrialLoop(b,
                    in_order(b, {m \in legal_moves_between(b,
                                        SQUARES, {b.ep_square} \ {-1}) :
                                    is_en_passant(b, m)}),
                    visual_grid))
      [] OTHER -> Inferred(NoMove, <<>>, b)

\* OccupancyChessSystem._infer_move of core/chess_logic.py.
_infer_move(b, expected_grid, visual_grid, debug_mode) ==
    infer_by_diff(b,
        {i \in 1..64 : /\ expected_grid[Cells[i][1]][Cells[i][2]]
                       /\ ~visual_grid[Cells[i][1]][Cells[i][2]]},
        {i \in 1..64 : /\ ~expected_grid[Cells[i][1]][Cells[i][2]]
                       /\ visual_grid[Cells[i][1]][Cells[i][2]]},
        visual_grid, debug_mode)

\* The diff log naming the first mismatched square only
DiffLogOfFirst(expected, detected) ==
    LET mismatched == SelectSeq([i \in 1..64 |-> i],
                          LAMBDA i : expected[Cells[i][1]][Cells[i][2]]
                                        # detected[Cells[i][1]][Cells[i][2]])
        first == Cells[mismatched[1]]
    IN  IF mismatched = <<>> THEN <<>>
        ELSE <<"DEBUG: Diffs: "
                \o square_name(square(first[2], 7 - first[1])) \o ": "
                \o (IF expected[first[1]][first[2]] THEN "Occ" ELSE "Emp") \o "->"
                \o (IF detected[first[1]][first[2]] THEN "Occ" ELSE "Emp")>>

\* The "Diff logging" of update: one entry per mismatched square.
DiffLog(expected, detected) ==
    LET mismatched == SelectSeq([i \in 1..64 |-> i],
                          LAMBDA i : expected[Cells[i][1]][Cells[i][2]]
                                        # detected[Cells[i][1]][Cells[i][2]])
        entry(i) ==
            square_name(square(Cells[i][2], 7 - Cells[i][1])) \o ": "
                \o (IF expected[Cells[i][1]][Cells[i][2]] THEN "Occ" ELSE "Emp") \o "->"
                \o (IF detected[Cells[i][1]][Cells[i][2]] THEN "Occ" ELSE "Emp")
    IN  IF mismatched = <<>> THEN <<>>
        ELSE <<"DEBUG: Diffs: "
                \o Join([k \in 1..Len(mismatched) |-> entry(mismatched[k])], ", ")>>

\* HybridManager._get_initial_grid
_get_initial_grid ==
    [r \in 0..7 |-> [c \in 0..7 |->
        IF r \in {0, 1} THEN "black" ELSE IF r \in {6, 7} THEN "white" ELSE "empty"]]

\* OccupancyChessSystem.__init__; time.time() is far beyond debounce_time, so
\* stable_start_time = 0 lies more than debounce_time back.
Constructed ==
    /\ board = StartBoard
    /\ move_list = <<>>
    /\ last_move = NoMove
    /\ last_occupancy_grid = NoGrid
    /\ expected_occupancy = _get_board_occupancy(StartBoard)
    /\ stable_elapsed = DebounceTime + 1
    /\ op = "init" /\ outcome = "" /\ ret = "None" /\ logs = <<>> /\ spoken = <<>>
    /\ played = <<>>
    /\ forced = 0
    /\ commands = 0
    /\ prior = NoPrior
    /\ seen_grid = NoGrid
    /\ seen_elapsed = 0
    \* HybridManager.__init__ and StateManager.__init__
    /\ game_history = <<>>
    /\ current_stable_grid = _get_initial_grid
    /\ pending_grid = NoGrid
    /\ stability_counter = 0
    /\ is_processing = FALSE
    /\ signals = <<>>
    /\ stability_threshold = STABILITY_THRESHOLD
    /\ auto_sync_on_reset = FALSE
    /\ current_yolo_grid = NoGrid
    /\ seen_frames = 0
    /\ in_process_change = 0
    \* VisionWorker.__init__, and the head of run
    /\ state = "WAITING"
    /\ calibration_matrix = "None"
    /\ request_calibration = FALSE
    /\ rotation_index = 0
    /\ last_raw_corners = "None"
    /\ in_update = FALSE
    /\ last_grid = NoGrid

Init == Constructed /\ camera = SceneGrid(<<>>)

\* A call returns: what the caller gets and what the call did besides.
Returns(name, branch, value, lines, said) ==
    /\ op' = name
    /\ outcome' = branch
    /\ ret' = value
    /\ logs' = lines
    /\ spoken' = said

\* sync_board which also starts the record of moves anew
sync_board_clearing_move_list(visual_occupancy_grid, elapsed) ==
    /\ board' = StartBoard
    /\ expected_occupancy' = _get_board_occupancy(StartBoard)
    /\ last_occupancy_grid' = visual_occupancy_grid
    /\ stable_elapsed' = elapsed
    /\ move_list' = <<>>
    /\ last_move' = NoMove
    /\ Returns("sync_board", "synced", "None",
               <<"Syncing internal board to standard starting position...",
                 "Board Sync Complete. Assuming standard starting position.">>, <<>>)

\* OccupancyChessSystem.sync_board(visual_occupancy_grid)
sync_board(visual_occupancy_grid, elapsed) ==
    /\ board' = StartBoard
    /\ expected_occupancy' = _get_board_occupancy(StartBoard)
    /\ last_occupancy_grid' = visual_occupancy_grid
    /\ stable_elapsed' = elapsed
    /\ UNCHANGED <<move_list, last_move>>
    /\ Returns("sync_board", "synced", "None",
               <<"Syncing internal board to standard starting position...",
                 "Board Sync Complete. Assuming standard starting position.">>, <<>>)

\* undo_last_move without its move_list.pop().
undo_last_move_keeping_move_list ==
    IF move_list = <<>>
    THEN /\ UNCHANGED core_vars
         /\ Returns("undo_last_move", "empty", "False", <<>>, <<>>)
    ELSE IF board.move_stack = <<>>
    THEN /\ UNCHANGED core_vars
         /\ Returns("undo_last_move", "index_error", "False", <<>>, <<>>)
    ELSE /\ board' = pop(board)
         /\ UNCHANGED <<move_list, last_move, last_occupancy_grid,
                        expected_occupancy, stable_elapsed>>
         /\ Returns("undo_last_move", "undone", "True", <<>>, <<>>)

\* undo_last_move which also forgets the grid under debounce
undo_last_move_forgetting_grid ==
    IF move_list = <<>>
    THEN /\ UNCHANGED core_vars
         /\ Returns("undo_last_move", "empty", "False", <<>>, <<>>)
    ELSE IF board.move_stack = <<>>
    THEN /\ UNCHANGED core_vars
         /\ Returns("undo_last_move", "index_error", "False", <<>>, <<>>)
    ELSE /\ board' = pop(board)
         /\ move_list' = SubSeq(move_list, 1, Len(move_list) - 1)
         /\ last_move' = IF Len(move_list) > 1
                         THEN move_list[Len(move_list) - 1] ELSE NoMove
         /\ last_occupancy_grid' = NoGrid
         /\ UNCHANGED <<expected_occupancy, stable_elapsed>>
         /\ Returns("undo_last_move", "undone", "True", <<>>, <<>>)

\* OccupancyChessSystem.undo_last_move()
undo_last_move ==
    IF move_list = <<>>
    THEN /\ UNCHANGED core_vars
         /\ Returns("undo_last_move", "empty", "False", <<>>, <<>>)
    ELSE IF board.move_stack = <<>>
    THEN \* board.pop() raises IndexError
         /\ UNCHANGED core_vars
         /\ Returns("undo_last_move", "index_error", "False", <<>>, <<>>)
    ELSE /\ board' = pop(board)
         /\ move_list' = SubSeq(move_list, 1, Len(move_list) - 1)
         /\ last_move' = IF Len(move_list) > 1
                         THEN move_list[Len(move_list) - 1] ELSE NoMove
         /\ UNCHANGED <<last_occupancy_grid, expected_occupancy, stable_elapsed>>
         /\ Returns("undo_last_move", "undone", "True", <<>>, <<>>)

\* update which leaves stable_start_time alone when it plays or rejects a move
play_without_reset(b, move, lines, notation) ==
    IF is_legal(b, move)
    THEN /\ board' = push(b, move)
         /\ last_move' = move
         \* "except:" stores and returns the move's UCI text instead
         /\ move_list' = Append(move_list,
                            IF notation = SanError THEN uci(move) ELSE move)
         /\ UNCHANGED stable_elapsed
         /\ UNCHANGED <<last_occupancy_grid, expected_occupancy>>
         /\ Returns("update", "accepted",
                    IF notation = SanError THEN uci(move) ELSE notation, lines, <<>>)
    ELSE /\ board' = b
         /\ UNCHANGED stable_elapsed
         /\ UNCHANGED <<move_list, last_move, last_occupancy_grid, expected_occupancy>>
         /\ Returns("update", "illegal", "None",
                    lines \o <<"Illegal Move Detected: " \o uci(move)>>,
                    <<"Illegal Move">>)

\* update, "Check legality": the legal move is pushed, the illegal one rejected.
play(b, move, lines, notation) ==
    IF is_legal(b, move)
    THEN /\ board' = push(b, move)
         /\ last_move' = move
         \* "except:" stores and returns the move's UCI text instead
         /\ move_list' = Append(move_list,
                            IF notation = SanError THEN uci(move) ELSE move)
         /\ stable_elapsed' = 0
         /\ UNCHANGED <<last_occupancy_grid, expected_occupancy>>
         /\ Returns("update", "accepted",
                    IF notation = SanError THEN uci(move) ELSE notation, lines, <<>>)
    ELSE /\ board' = b
         /\ stable_elapsed' = 0
         /\ UNCHANGED <<move_list, last_move, last_occupancy_grid, expected_occupancy>>
         /\ Returns("update", "illegal", "None",
                    lines \o <<"Illegal Move Detected: " \o uci(move)>>,
                    <<"Illegal Move">>)

\* update, "Debug mode: force the move".
force(b, move, piece, lines) ==
    /\ board' = [b EXCEPT
            !.pieces = IF piece # 0
                       THEN [@ EXCEPT ![move.from_square] = 0, ![move.to_square] = piece]
                       ELSE @,
            \* Board.remove_piece_at and Board.set_piece_at clear the move stack
            !.move_stack = <<>>]
    /\ stable_elapsed' = 0
    /\ UNCHANGED <<move_list, last_move, last_occupancy_grid, expected_occupancy>>
    /\ Returns("update", "forced", "Force " \o uci(move),
               IF piece # 0 THEN lines
               ELSE lines \o <<"DEBUG: Tried to move non-existent piece!">>,
               <<>>)

\* update which checks legality for the side to move, whoever's piece moved
apply_move_without_switch(b, move, piece, switch, lines, debug_mode) ==
    IF debug_mode
    THEN force(b, move, piece, lines)
    ELSE play(b, move, lines, san(b, move))

\* update, from "if move:": the turn is switched in no_turn_mode, and the move
\* is forced, played or rejected.
apply_move(b, move, piece, switch, lines, debug_mode) ==
    IF debug_mode
    THEN force(b, move, piece, lines)
    ELSE IF switch
    THEN play([b EXCEPT !.turn = piece_color(piece)], move,
              lines \o <<"No Turn Mode: Switching turn to "
                            \o (IF piece_color(piece) THEN "White" ELSE "Black")>>,
              san([b EXCEPT !.turn = piece_color(piece)], move))
    ELSE play(b, move, lines, san(b, move))

\* update, the stable state that differs from the expected one.
settle(detected_occupancy_grid, expected, inferred, differs, debug_mode, no_turn_mode) ==
    IF inferred.move = NoMove
    THEN /\ board' = inferred.board
         /\ stable_elapsed' = 0
         /\ UNCHANGED <<move_list, last_move, last_occupancy_grid, expected_occupancy>>
         /\ Returns("update", "no_move", "None",
                    differs \o inferred.logs \o DiffLog(expected, detected_occupancy_grid),
                    <<>>)
    ELSE apply_move(inferred.board, inferred.move,
                    inferred.board.pieces[inferred.move.from_square],
                    /\ no_turn_mode
                    /\ inferred.board.pieces[inferred.move.from_square] # 0
                    /\ piece_color(inferred.board.pieces[inferred.move.from_square])
                            # inferred.board.turn,
                    differs \o inferred.logs, debug_mode)

\* update comparing the grid with self.expected_occupancy, the occupancy kept
\* since the last sync, instead of the occupancy of the board as it is now.
update_against_synced_occupancy(detected_occupancy_grid, debug_mode, no_turn_mode, elapsed) ==
    IF last_occupancy_grid = NoGrid
    THEN /\ last_occupancy_grid' = detected_occupancy_grid
         /\ stable_elapsed' = 0
         /\ UNCHANGED <<board, move_list, last_move, expected_occupancy>>
         /\ Returns("update", "first", "None", <<>>, <<>>)
    ELSE IF detected_occupancy_grid # last_occupancy_grid
    THEN /\ last_occupancy_grid' = detected_occupancy_grid
         /\ stable_elapsed' = 0
         /\ UNCHANGED <<board, move_list, last_move, expected_occupancy>>
         /\ Returns("update", "changed", "None", <<>>, <<>>)
    ELSE IF ~(elapsed > DebounceTime)
    THEN /\ stable_elapsed' = elapsed
         /\ UNCHANGED <<board, move_list, last_move, last_occupancy_grid,
                        expected_occupancy>>
         /\ Returns("update", "waiting", "None", <<>>, <<>>)
    ELSE IF detected_occupancy_grid = expected_occupancy
    THEN /\ stable_elapsed' = elapsed
         /\ UNCHANGED <<board, move_list, last_move, last_occupancy_grid,
                        expected_occupancy>>
         /\ Returns("update", "match", "None", <<>>, <<>>)
    ELSE settle(detected_occupancy_grid, expected_occupancy,
                _infer_move(board, expected_occupancy,
                            detected_occupancy_grid, debug_mode),
                <<"DEBUG: Stable State Differs. Expected "
                    \o ToString(Occupied(expected_occupancy)) \o ", Got "
                    \o ToString(Occupied(detected_occupancy_grid))>>,
                debug_mode, no_turn_mode)

\* OccupancyChessSystem.update(detected_occupancy_grid, debug_mode, no_turn_mode)
\* of core/chess_logic.py.  elapsed is current_time - stable_start_time at the
\* call, and stable_start_time = current_time puts it back to 0.
update(detected_occupancy_grid, debug_mode, no_turn_mode, elapsed) ==
    IF last_occupancy_grid = NoGrid
    THEN /\ last_occupancy_grid' = detected_occupancy_grid
         /\ stable_elapsed' = 0
         /\ UNCHANGED <<board, move_list, last_move, expected_occupancy>>
         /\ Returns("update", "first", "None", <<>>, <<>>)
    ELSE IF detected_occupancy_grid # last_occupancy_grid
    THEN /\ last_occupancy_grid' = detected_occupancy_grid
         /\ stable_elapsed' = 0
         /\ UNCHANGED <<board, move_list, last_move, expected_occupancy>>
         /\ Returns("update", "changed", "None", <<>>, <<>>)
    ELSE IF ~(elapsed > DebounceTime)
    THEN /\ stable_elapsed' = elapsed
         /\ UNCHANGED <<board, move_list, last_move, last_occupancy_grid,
                        expected_occupancy>>
         /\ Returns("update", "waiting", "None", <<>>, <<>>)
    ELSE IF detected_occupancy_grid = _get_board_occupancy(board)
    THEN /\ stable_elapsed' = elapsed
         /\ UNCHANGED <<board, move_list, last_move, last_occupancy_grid,
                        expected_occupancy>>
         /\ Returns("update", "match", "None", <<>>, <<>>)
    ELSE settle(detected_occupancy_grid, _get_board_occupancy(board),
                _infer_move(board, _get_board_occupancy(board),
                            detected_occupancy_grid, debug_mode),
                <<"DEBUG: Stable State Differs. Expected "
                    \o ToString(Occupied(_get_board_occupancy(board))) \o ", Got "
                    \o ToString(Occupied(detected_occupancy_grid))>>,
                debug_mode, no_turn_mode)

(***************************************************************************)
(* The steps of a run.  Time passes between calls: dt is the time since    *)
(* the previous call that read the clock.                                  *)
(***************************************************************************)
Delays == 0..(DebounceTime + 1)

\* The position and history a call found, kept while the move it accepted is
\* the last one on the board's stack.
Position == [pieces |-> board.pieces, turn |-> board.turn, move_list |-> move_list]

\* The vision thread's frame: update on the camera's grid.
Frame ==
    \E debug_mode \in BOOLEAN, no_turn_mode \in BOOLEAN, dt \in Delays :
        /\ debug_mode => forced < MaxForced
        /\ update(camera, debug_mode, no_turn_mode, Saturate(stable_elapsed + dt))
        /\ forced' = IF outcome' = "forced" THEN forced + 1 ELSE forced
        /\ prior' = CASE outcome' = "accepted" -> Position
                      [] outcome' = "forced" -> NoPrior
                      [] OTHER -> prior
        /\ See(camera, dt)
        /\ UNCHANGED <<played, camera, commands, hybrid_vars, settings_vars, worker_vars>>

\* command_start_game: the board is synced on the current frame's grid.
StartGame ==
    \E dt \in Delays :
        /\ commands < MaxCommands
        /\ commands' = commands + 1
        /\ sync_board(camera, Saturate(stable_elapsed + dt))
        /\ prior' = NoPrior
        /\ See(camera, dt)
        /\ UNCHANGED <<played, camera, forced, hybrid_vars, settings_vars, worker_vars>>

\* command_undo
Undo ==
    /\ commands < MaxCommands
    /\ commands' = commands + 1
    /\ undo_last_move
    /\ prior' = NoPrior
    /\ UNCHANGED <<played, camera, forced, seen_grid, seen_elapsed, hybrid_vars, settings_vars, worker_vars>>

\* A player's hand changes the physical board: the next change of a scene.
Hand ==
    \E scene \in Scenes :
        /\ Len(scene) > Len(played)
        /\ SubSeq(scene, 1, Len(played)) = played
        /\ played' = Append(played, scene[Len(played) + 1])
        /\ camera' = SceneGrid(played')
        /\ UNCHANGED <<core_vars, forced, commands, prior, seen_grid, seen_elapsed, hybrid_vars, settings_vars, worker_vars>>
        /\ Returns("hand", "", "None", <<>>, <<>>)

Next == Frame \/ StartGame \/ Undo \/ Hand

Spec == Init /\ [][Next]_vars

(***************************************************************************)
(* occupancy_system.py: the OccupancyChessSystem without move list, debug   *)
(* mode and no-turn mode.                                                  *)
(***************************************************************************)
\* occupancy_system.py, _infer_move, Case B: the legal captures from src
occupancy_system_capture_candidates(b, src) ==
    in_order(b, {m \in legal_moves_between(b, {src}, SQUARES) : is_capture(b, m)})

\* OccupancyChessSystem._infer_move of occupancy_system.py, by the squares
\* that emptied (sources) and filled (targets).
occupancy_system_infer_by_diff(b, sources, targets, visual_grid) ==
    CASE Cardinality(sources) = 1 /\ Cardinality(targets) = 1 ->
            \* Case A: normal move
            LET src == cell_square(CHOOSE i \in sources : TRUE)
                dst == cell_square(CHOOSE i \in targets : TRUE)
                move == IF piece_type(b.pieces[src]) = PAWN /\ square_rank(dst) \in {0, 7}
                        THEN Move(src, dst, QUEEN)
                        ELSE Move(src, dst, 0)
            IN  IF is_legal(b, move)
                THEN Inferred(move, <<>>, b)
                ELSE Inferred(NoMove, <<>>, b)
      [] Cardinality(sources) = 1 /\ Cardinality(targets) = 0 ->
            \* Case B: capture
            LET candidates ==
                    occupancy_system_capture_candidates(b,
                        cell_square(CHOOSE i \in sources : TRUE))
            IN  IF Len(candidates) = 1
                THEN Inferred(candidates[1], <<>>, b)
                ELSE Inferred(NoMove, <<>>, b)
      [] Cardinality(sources) = 2 /\ Cardinality(targets) = 2 ->
            \* Case C: castling
            Found(TrialLoop(b,
                    in_order(b, {m \in legal_moves_between(b,
                                        {king(b.pieces, b.turn)} \ {-1}, SQUARES) :
                                    is_castling(b, m)}),
                    visual_grid))
      [] Cardinality(sources) = 2 /\ Cardinality(targets) = 1 ->
            \* Case D: en passant
            Found(TrialLoop(b,
                    in_order(b, {m \in legal_moves_between(b,
                                        SQUARES, {b.ep_square} \ {-1}) :
                                    is_en_passant(b, m)}),
                    visual_grid))
      [] OTHER -> Inferred(NoMove, <<>>, b)

\* OccupancyChessSystem._infer_move of occupancy_system.py
occupancy_system_infer_move(b, expected_grid, visual_grid) ==
    occupancy_system_infer_by_diff(b,
        {i \in 1..64 : /\ expected_grid[Cells[i][1]][Cells[i][2]]
                       /\ ~visual_grid[Cells[i][1]][Cells[i][2]]},
        {i \in 1..64 : /\ ~expected_grid[Cells[i][1]][Cells[i][2]]
                       /\ visual_grid[Cells[i][1]][Cells[i][2]]},
        visual_grid)

\* update of occupancy_system.py, from "move = self._infer_move(...)": the
\* move is pushed first and its notation asked of the board after it.
occupancy_system_settle(inferred) ==
    IF inferred.move = NoMove
    THEN /\ board' = inferred.board
         /\ UNCHANGED <<move_list, last_move, last_occupancy_grid,
                        expected_occupancy, stable_elapsed>>
         /\ Returns("update", "no_move", "None", <<>>, <<>>)
    ELSE /\ board' = push(inferred.board, inferred.move)
         /\ stable_elapsed' = 0
         /\ UNCHANGED <<move_list, last_move, last_occupancy_grid, expected_occupancy>>
         /\ Returns("update", "accepted",
                    san(push(inferred.board, inferred.move), inferred.move),
                    <<>>, <<>>)

\* OccupancyChessSystem.update(detected_occupancy_grid) of occupancy_system.py
occupancy_system_update(detected_occupancy_grid, elapsed) ==
    IF last_occupancy_grid = NoGrid
    THEN /\ last_occupancy_grid' = detected_occupancy_grid
         /\ stable_elapsed' = 0
         /\ UNCHANGED <<board, move_list, last_move, expected_occupancy>>
         /\ Returns("update", "first", "None", <<>>, <<>>)
    ELSE IF detected_occupancy_grid # last_occupancy_grid
    THEN /\ last_occupancy_grid' = detected_occupancy_grid
         /\ stable_elapsed' = 0
         /\ UNCHANGED <<board, move_list, last_move, expected_occupancy>>
         /\ Returns("update", "changed", "None", <<>>, <<>>)
    ELSE IF ~(elapsed > DebounceTime)
    THEN /\ stable_elapsed' = elapsed
         /\ UNCHANGED <<board, move_list, last_move, last_occupancy_grid,
                        expected_occupancy>>
         /\ Returns("update", "waiting", "None", <<>>, <<>>)
    ELSE IF detected_occupancy_grid = _get_board_occupancy(board)
    THEN /\ stable_elapsed' = elapsed
         /\ UNCHANGED <<board, move_list, last_move, last_occupancy_grid,
                        expected_occupancy>>
         /\ Returns("update", "match", "None", <<>>, <<>>)
    ELSE occupancy_system_settle(
            occupancy_system_infer_move(board, _get_board_occupancy(board),
                                        detected_occupancy_grid))

\* The frame loop calling occupancy_system.py's update on the camera's grid.
OccupancySystemFrame ==
    \E dt \in Delays :
        /\ occupancy_system_update(camera, Saturate(stable_elapsed + dt))
        /\ See(camera, dt)
        /\ UNCHANGED <<played, camera, forced, commands, prior, hybrid_vars, settings_vars, worker_vars>>

NextOccupancySystem == OccupancySystemFrame \/ Hand

SpecOccupancySystem == Init /\ [][NextOccupancySystem]_vars

(***************************************************************************)
(* Games under way: the OccupancyChessSystem of core/chess_logic.py taken   *)
(* up right after update has accepted the last move of an opening line,     *)
(* every move of the line having been made on the physical board and        *)
(* accepted in its turn.                                                   *)
(***************************************************************************)
\* The board after the moves of a line, played from the starting position.
RECURSIVE After(_)
After(line) ==
    IF line = <<>> THEN StartBoard
    ELSE push(After(SubSeq(line, 1, Len(line) - 1)), line[Len(line)])

\* The squares whose occupancy each move of a line changed, move by move.
RECURSIVE LineChanges(_)
LineChanges(line) ==
    IF line = <<>> THEN <<>>
    ELSE LET before == After(SubSeq(line, 1, Len(line) - 1))
             after == After(line)
         IN  Append(LineChanges(SubSeq(line, 1, Len(line) - 1)),
                    {s \in SQUARES : (before.pieces[s] # 0) # (after.pieces[s] # 0)})

\* 1.Nf3 Nc6 2.e3 a6 3.Be2 b6: White may castle short
CastlingLine ==
    <<Move(6, 21, 0), Move(57, 42, 0), Move(12, 20, 0), Move(48, 40, 0),
      Move(5, 12, 0), Move(49, 41, 0)>>

\* 1.e4 a6 2.e5 d5: White may take en passant on d6
EnPassantLine ==
    <<Move(12, 28, 0), Move(48, 40, 0), Move(28, 36, 0), Move(51, 35, 0)>>

\* 1.h4 g5 2.hxg5 h6 3.gxh6 Nf6 4.h7 Rg8: the pawn h7 may promote on h8 or
\* take the rook on g8
PromotionLine ==
    <<Move(31 - 16, 31, 0), Move(54, 38, 0), Move(31, 38, 0), Move(55, 47, 0),
      Move(38, 47, 0), Move(62, 45, 0), Move(47, 55, 0), Move(63, 62, 0)>>

\* A line and what the players' hands do to the physical board after it.
MidgameScenes ==
    { \* O-O in four stages: king lifted, put on g1, rook lifted, put on f1
      [line |-> CastlingLine, hands |-> <<{4}, {6}, {7}, {5}>>],
      \* a2-a3 and b2-b3 at once: two vacated, two filled, no castling
      [line |-> CastlingLine, hands |-> <<{8, 16, 9, 17}>>],
      \* two pawns and a knight lifted, a piece set on a3; then all cleared
      [line |-> CastlingLine, hands |-> <<{8, 9, 1, 16}, {8, 9, 1, 16}>>],
      \* the pawn g2 put back on g1, its own first rank
      [line |-> CastlingLine, hands |-> <<{14, 6}>>],
      \* exd6 e.p. in three stages: e5 lifted, put on d6, d5 taken off
      [line |-> EnPassantLine, hands |-> <<{36}, {43}, {35}>>],
      \* e5-e6, and the pawn d5 taken off: two vacated, one filled, no e.p.
      [line |-> EnPassantLine, hands |-> <<{36, 44, 35}>>],
      \* Black's pawn d5 goes to d4 (White is to move), then a7... a6-a5
      [line |-> EnPassantLine, hands |-> <<{35, 27}, {40, 32}>>],
      \* h7-h8, promoting
      [line |-> PromotionLine, hands |-> <<{55, 63}>>],
      \* the pawn h7 lifted: it takes the rook on g8, promoting
      [line |-> PromotionLine, hands |-> <<{55}>>],
      \* a pawn added on a3, then taken off again, and the knight b1 lifted
      [line |-> PromotionLine, hands |-> <<{16}, {16}, {1}>>],
      \* White castles short at once after 3.Be2, with Black to move
      [line |-> SubSeq(CastlingLine, 1, 5), hands |-> <<{4, 6, 7, 5}>>],
      \* Black's rook g8 lifted to take on g2, with White to move
      [line |-> PromotionLine, hands |-> <<{62}>>],
      \* Black's d5-d4 and the pawn e7 taken off, with White to move
      [line |-> EnPassantLine, hands |-> <<{35, 27, 52}>>] }

\* The state right after update accepted the last move of a scene's line.
InitMidgame ==
    \E scene \in MidgameScenes :
        LET line == scene.line
            earlier == SubSeq(line, 1, Len(line) - 1)
            before == After(earlier)
            grid == SceneGrid(LineChanges(line))
        IN  /\ board = After(line)
            /\ move_list = line
            /\ last_move = line[Len(line)]
            /\ last_occupancy_grid = grid
            /\ expected_occupancy = _get_board_occupancy(StartBoard)
            /\ stable_elapsed = 0
            /\ op = "update" /\ outcome = "accepted"
            /\ ret = san(before, line[Len(line)])
            /\ logs = <<"DEBUG: Stable State Differs. Expected "
                          \o ToString(Occupied(_get_board_occupancy(before)))
                          \o ", Got " \o ToString(Occupied(grid))>>
            /\ spoken = <<>>
            /\ played = LineChanges(line)
            /\ camera = grid
            /\ forced = 0
            /\ commands = 0
            /\ prior = [pieces |-> before.pieces, turn |-> before.turn,
                        move_list |-> earlier]
            /\ seen_grid = grid
            /\ seen_elapsed = DebounceTime + 1
            /\ game_history = <<>>
            /\ current_stable_grid = _get_initial_grid
            /\ pending_grid = NoGrid
            /\ stability_counter = 0
            /\ is_processing = FALSE
            /\ signals = <<>>
            /\ stability_threshold = STABILITY_THRESHOLD
            /\ auto_sync_on_reset = FALSE
            /\ current_yolo_grid = NoGrid
            /\ seen_frames = 0
            /\ in_process_change = 0
            /\ state = "WAITING"
            /\ calibration_matrix = "None"
            /\ request_calibration = FALSE
            /\ rotation_index = 0
            /\ last_raw_corners = "None"
            /\ in_update = FALSE
            /\ last_grid = NoGrid

\* A player's hand changes the physical board: the next change of a scene.
MidgameHand ==
    \E scene \in MidgameScenes :
        LET whole == LineChanges(scene.line) \o scene.hands
        IN  /\ Len(whole) > Len(played)
            /\ SubSeq(whole, 1, Len(played)) = played
            /\ played' = Append(played, whole[Len(played) + 1])
            /\ camera' = SceneGrid(played')
            /\ UNCHANGED <<core_vars, forced, commands, prior, seen_grid,
                           seen_elapsed, hybrid_vars, settings_vars, worker_vars>>
            /\ Returns("hand", "", "None", <<>>, <<>>)

NextMidgame == Frame \/ Undo \/ MidgameHand

SpecMidgame == InitMidgame /\ [][NextMidgame]_vars

(***************************************************************************)
(* chess_hybrid: the HybridManager and its StateManager.  The camera hands *)
(* it colour grids ("white", "black", "empty"); a grid counts as settled   *)
(* after STABILITY_THRESHOLD repeated frames.  The clock, the engine and   *)
(* the throttled debug line of every 60th frame are left out, and so are   *)
(* StateManager's console prints.                                          *)
(***************************************************************************)
\* The frames counted while the grid stays the same.
MaxStability == 6

\* The physical board as sequences of relocations <<from, to>> of one piece.
HybridScenes ==
    { <<<<12, 28>>, <<51, 35>>, <<28, 35>>>>,   \* 1. e4 d5 2. exd5
      <<<<12, 36>>, <<36, 28>>>>,               \* e2 to e5, then back to e4
      <<<<52, 36>>, <<12, 28>>>>,               \* Black moves first, then e2-e4
      <<<<6, 21>>, <<57, 42>>, <<21, 38>>, <<38, 21>>>> }  \* Nf3 Nc6 Ng5 Nf3

Colour(p) == IF p = 0 THEN "empty" ELSE IF piece_color(p) THEN "white" ELSE "black"

\* The colours on the squares of the physical board after the relocations p.
RECURSIVE Relocated(_)
Relocated(p) ==
    IF p = <<>> THEN [s \in SQUARES |-> Colour(StartPieces[s])]
    ELSE LET before == Relocated(SubSeq(p, 1, Len(p) - 1))
             last == p[Len(p)]
         IN  [before EXCEPT ![last[2]] = before[last[1]], ![last[1]] = "empty"]

ColourGrid(p) ==
    LET on == Relocated(p)
    IN  [r \in 0..7 |-> [c \in 0..7 |-> on[square(c, 7 - r)]]]

\* A FEN is kept as its space-separated fields, the board field as its eight
\* ranks (rank 8 first) and each rank as its characters; the two move
\* counters, which the board of this model does not keep, are left out.

\* Piece.symbol()
piece_symbol(p) ==
    IF piece_color(p)
    THEN <<"P", "N", "B", "R", "Q", "K">>[piece_type(p)]
    ELSE PIECE_SYMBOLS[piece_type(p)]

\* Board.board_fen(), one rank: the pieces from file f on, after empty squares
RECURSIVE rank_fen(_, _, _, _)
rank_fen(pieces, rank, f, empty) ==
    LET run == IF empty > 0 THEN <<ToString(empty)>> ELSE <<>>
    IN  IF f = 8 THEN run
        ELSE IF pieces[square(f, rank)] = 0
        THEN rank_fen(pieces, rank, f + 1, empty + 1)
        ELSE run \o <<piece_symbol(pieces[square(f, rank)])>>
                 \o rank_fen(pieces, rank, f + 1, 0)

\* Board.castling_xfen()
castling_fen(rights) ==
    LET text == (IF 7 \in rights THEN "K" ELSE "") \o (IF 0 \in rights THEN "Q" ELSE "")
                \o (IF 63 \in rights THEN "k" ELSE "") \o (IF 56 \in rights THEN "q" ELSE "")
    IN  IF text = "" THEN "-" ELSE text

\* StateManager.get_fen(): Board.fen(), which names the en-passant square only
\* when a pawn can legally take there.
get_fen(b) ==
    [board |-> [r \in 1..8 |-> rank_fen(b.pieces, 8 - r, 0, 0)],
     turn |-> IF b.turn = WHITE THEN "w" ELSE "b",
     castling |-> castling_fen(clean_castling_rights(b)),
     ep |-> IF /\ b.ep_square # -1
               /\ \E m \in legal_moves_between(
                              b, {s \in SQUARES : b.pieces[s] = Piece(PAWN, b.turn)},
                              {b.ep_square}) : is_en_passant(b, m)
            THEN square_name(b.ep_square) ELSE "-"]

\* BaseBoard._set_board_fen, one rank: the pieces its characters spell, a
\* character that is neither a piece nor a digit spelling nine squares.
RECURSIVE rank_pieces(_)
rank_pieces(chars) ==
    IF chars = <<>> THEN <<>>
    ELSE LET c == Head(chars)
             digits == {d \in 1..8 : ToString(d) = c}
             spelt == {p \in {Piece(t, col) : t \in PAWN..KING, col \in BOOLEAN} :
                         piece_symbol(p) = c}
         IN  (IF digits # {} THEN [i \in 1..(CHOOSE d \in digits : TRUE) |-> 0]
              ELSE IF spelt # {} THEN <<CHOOSE p \in spelt : TRUE>>
              ELSE [i \in 1..9 |-> 0])
             \o rank_pieces(Tail(chars))

\* Board.set_fen validates every field before it changes the board.
fen_is_valid(fen) ==
    /\ Len(fen.board) = 8
    /\ \A r \in 1..8 : Len(rank_pieces(fen.board[r])) = 8
    /\ fen.turn \in {"w", "b"}
    /\ \E rights \in SUBSET {0, 7, 56, 63} : castling_fen(rights) = fen.castling
    /\ fen.ep = "-" \/ \E s \in SQUARES : square_name(s) = fen.ep

\* BaseBoard._set_board_fen: the pieces put on the squares
pieces_of_rows(rows) ==
    [s \in SQUARES |-> rows[8 - square_rank(s)][square_file(s) + 1]]

\* Board.set_fen(fen), and chess.Board(fen), of a valid FEN: the position with
\* an empty move stack.
set_fen(fen) ==
    [pieces |-> pieces_of_rows([r \in 1..8 |-> rank_pieces(fen.board[r])]),
     turn |-> fen.turn = "w",
     castling_rights |-> CHOOSE rights \in SUBSET {0, 7, 56, 63} :
                            castling_fen(rights) = fen.castling,
     ep_square |-> IF fen.ep = "-" THEN -1
                   ELSE CHOOSE s \in SQUARES : square_name(s) = fen.ep,
     move_stack |-> <<>>]

\* What an operator enters in the manual-correction dialog or pastes: the
\* start position, the position after 1.e4, and a text of four fields whose
\* board field has a rank of nine squares.
Fens ==
    { get_fen(StartBoard), get_fen(push(StartBoard, Move(12, 28, 0))),
      [get_fen(StartBoard) EXCEPT !.board[8] = <<"R", "N", "B", "Q", "K", "B", "N", "R", "1">>] }

\* HybridManager._fen_to_grid
_fen_to_grid(fen) ==
    LET b == set_fen(fen)
    IN  [rank \in 0..7 |-> [file \in 0..7 |->
            Colour(b.pieces[square(file, 7 - rank)])]]

\* chess.Move.from_uci(uci_move): the move the string spells; NoMove stands
\* for the ValueError it raises when the string spells none.
from_uci(uci_move) ==
    LET spelt == {m \in {Move(f, t, p) : f \in SQUARES, t \in SQUARES,
                                          p \in {0, KNIGHT, BISHOP, ROOK, QUEEN}} :
                     m.from_square # m.to_square /\ uci(m) = uci_move}
    IN  IF spelt = {} THEN NoMove ELSE CHOOSE m \in spelt : TRUE

\* StateManager.make_move
StateManager_make_move(b, history, uci_move) ==
    LET move == from_uci(uci_move)
    IN  IF move = NoMove
        THEN [made |-> FALSE, board |-> b, game_history |-> history]
        ELSE IF is_legal(b, move)
        THEN [made |-> TRUE, board |-> push(b, move),
              game_history |-> Append(history, move)]
        ELSE [made |-> FALSE, board |-> b, game_history |-> history]

\* StateManager.undo_last_move
StateManager_undo_last_move(b, history) ==
    IF Len(b.move_stack) > 0
    THEN [undone |-> TRUE, board |-> pop(b),
          game_history |-> IF history # <<>>
                           THEN SubSeq(history, 1, Len(history) - 1)
                           ELSE history]
    ELSE [undone |-> FALSE, board |-> b, game_history |-> history]

\* HybridManager._infer_move which promotes to a queen whatever the callback says
HybridManager_infer_move_to_queen(b, old_grid, new_grid, promotion_callback) ==
    LET diffs == {i \in 1..64 :
                    old_grid[Cells[i][1]][Cells[i][2]] # new_grid[Cells[i][1]][Cells[i][2]]}
        potential_srcs == {i \in diffs : new_grid[Cells[i][1]][Cells[i][2]] = "empty"}
        potential_dsts == diffs \ potential_srcs
        src_pos == CHOOSE i \in potential_srcs : TRUE
        dst_pos == CHOOSE i \in potential_dsts : TRUE
        src_color == old_grid[Cells[src_pos][1]][Cells[src_pos][2]]
        dst_color == new_grid[Cells[dst_pos][1]][Cells[dst_pos][2]]
        current_turn_color == IF b.turn = WHITE THEN "white" ELSE "black"
        piece == b.pieces[cell_square(src_pos)]
        is_promotion == /\ piece # 0 /\ piece_type(piece) = PAWN
                        /\ \/ piece_color(piece) = WHITE /\ Cells[dst_pos][1] = 0
                           \/ piece_color(piece) = BLACK /\ Cells[dst_pos][1] = 7
    IN  IF Cardinality(potential_srcs) = 1 /\ Cardinality(potential_dsts) = 1
           /\ src_color = dst_color
        THEN IF src_color # current_turn_color
             THEN [move_uci |-> "None",
                   signals |-> << <<"log_message", "warning",
                       "Wrong turn: Detected " \o src_color \o " move, but it's "
                       \o current_turn_color \o "'s turn.">> >>]
             ELSE [move_uci |-> square_name(cell_square(src_pos))
                                \o square_name(cell_square(dst_pos))
                                \o (IF is_promotion THEN "q" ELSE ""),
                   signals |-> <<>>]
        ELSE [move_uci |-> "None", signals |-> <<>>]

\* HybridManager._infer_move: one square emptied and one square taking the
\* colour that left; promotion_callback is what the registered callback
\* answers, "None" when none is registered.
HybridManager_infer_move(b, old_grid, new_grid, promotion_callback) ==
    LET diffs == {i \in 1..64 :
                    old_grid[Cells[i][1]][Cells[i][2]] # new_grid[Cells[i][1]][Cells[i][2]]}
        potential_srcs == {i \in diffs : new_grid[Cells[i][1]][Cells[i][2]] = "empty"}
        potential_dsts == diffs \ potential_srcs
        src_pos == CHOOSE i \in potential_srcs : TRUE
        dst_pos == CHOOSE i \in potential_dsts : TRUE
        src_color == old_grid[Cells[src_pos][1]][Cells[src_pos][2]]
        dst_color == new_grid[Cells[dst_pos][1]][Cells[dst_pos][2]]
        current_turn_color == IF b.turn = WHITE THEN "white" ELSE "black"
        piece == b.pieces[cell_square(src_pos)]
        is_promotion == /\ piece # 0 /\ piece_type(piece) = PAWN
                        /\ \/ piece_color(piece) = WHITE /\ Cells[dst_pos][1] = 0
                           \/ piece_color(piece) = BLACK /\ Cells[dst_pos][1] = 7
    IN  IF Cardinality(potential_srcs) = 1 /\ Cardinality(potential_dsts) = 1
           /\ src_color = dst_color
        THEN IF src_color # current_turn_color
             THEN [move_uci |-> "None",
                   signals |-> << <<"log_message", "warning",
                       "Wrong turn: Detected " \o src_color \o " move, but it's "
                       \o current_turn_color \o "'s turn.">> >>]
             ELSE [move_uci |-> square_name(cell_square(src_pos))
                                \o square_name(cell_square(dst_pos))
                                \o (IF ~is_promotion THEN ""
                                    ELSE IF promotion_callback # "None"
                                    THEN promotion_callback ELSE "q"),
                   signals |-> <<>>]
        ELSE [move_uci |-> "None", signals |-> <<>>]

\* A HybridManager call returns: the signals it emitted and what it announced.
Emits(name, branch, emitted, said) ==
    /\ Returns(name, branch, "None", <<>>, said)
    /\ signals' = emitted

\* AudioManager.announce_move, and the check announcements of _process_change
Announced(b, move) ==
    <<square_name(move.from_square) \o " to " \o square_name(move.to_square)
        \o (IF move.promotion = 0 THEN "" ELSE PIECE_SYMBOLS[move.promotion])>>
    \o (IF is_checkmate(b) THEN <<"Checkmate">>
        ELSE IF is_check(b) THEN <<"Check">> ELSE <<>>)

\* _process_change, "if self.state_manager.make_move(move_uci)"
confirm_move(made, move_uci, emitted) ==
    IF made.made
    THEN /\ board' = made.board
         /\ game_history' = made.game_history
         /\ Emits("update_board_state", "accepted",
                  emitted \o << <<"game_state_updated", get_fen(made.board), move_uci>>,
                                <<"log_message", "success",
                                  "Move " \o move_uci \o " confirmed.">> >>,
                  Announced(made.board, made.game_history[Len(made.game_history)]))
    ELSE /\ UNCHANGED <<board, game_history>>
         /\ Emits("update_board_state", "rejected",
                  Append(emitted, <<"log_message", "warning",
                                    "Illegal move inferred: " \o move_uci>>),
                  <<"Illegal move">>)

\* HybridManager._process_change
_process_change(inferred, emitted) ==
    IF inferred.move_uci # "None"
    THEN confirm_move(StateManager_make_move(board, game_history, inferred.move_uci),
                      inferred.move_uci,
                      Append(emitted, <<"log_message", "info",
                                        "Inferred Move: " \o inferred.move_uci>>))
    ELSE /\ UNCHANGED <<board, game_history>>
         /\ Emits("update_board_state", "unclear",
                  emitted \o inferred.signals
                    \o << <<"log_message", "debug",
                            "Board changed but no clear move inferred.">> >>,
                  <<>>)

\* HybridManager.update_board_state
update_board_state(visual_grid, promo_char) ==
    IF is_processing
    THEN /\ UNCHANGED <<board, game_history, current_stable_grid, pending_grid,
                       stability_counter, is_processing>>
         /\ Emits("update_board_state", "busy", <<>>, <<>>)
    ELSE IF current_stable_grid = NoGrid
    THEN /\ current_stable_grid' = visual_grid
         /\ UNCHANGED <<board, game_history, pending_grid, stability_counter,
                        is_processing>>
         /\ Emits("update_board_state", "first", <<>>, <<>>)
    ELSE /\ pending_grid' = visual_grid
         /\ stability_counter' = IF pending_grid = visual_grid
                                 THEN stability_counter + 1 ELSE 0
         /\ IF stability_counter' >= stability_threshold
               /\ visual_grid # current_stable_grid
            THEN /\ _process_change(
                        HybridManager_infer_move(board, current_stable_grid,
                                                 visual_grid, promo_char),
                        << <<"log_message", "debug",
                             "Stable board change detected. Inferring move...">> >>)
                 /\ current_stable_grid' = visual_grid
                 /\ is_processing' = FALSE
            ELSE /\ UNCHANGED <<board, game_history, current_stable_grid,
                                is_processing>>
                 /\ Emits("update_board_state",
                          IF stability_counter' >= stability_threshold
                          THEN "stable" ELSE "waiting", <<>>, <<>>)

\* HybridManager.undo_last_move
HybridManager_undo_last_move ==
    LET undo == StateManager_undo_last_move(board, game_history)
        b == undo.board
        last == IF Len(b.move_stack) > 0
                THEN uci(b.move_stack[Len(b.move_stack)].move) ELSE ""
    IN  /\ board' = b
        /\ game_history' = undo.game_history
        /\ UNCHANGED <<current_stable_grid, pending_grid, stability_counter,
                       is_processing>>
        /\ IF undo.undone
           THEN Emits("undo_last_move", "undone",
                      << <<"game_state_updated", get_fen(b), last>>,
                         <<"log_message", "info", "Last move undone.">> >>, <<>>)
           ELSE Emits("undo_last_move", "empty",
                      << <<"log_message", "warning", "No moves to undo.">> >>, <<>>)

\* The report of MainWindow.paste_fen when apply_manual_correction raises
InvalidFen == <<"log_message", "error", "Invalid FEN">>

\* apply_manual_correction which keeps the visual baseline it had
apply_manual_correction_keeping_baseline(fen) ==
    IF fen_is_valid(fen)
    THEN /\ board' = set_fen(fen)
         /\ game_history' = <<>>
         /\ UNCHANGED <<current_stable_grid, pending_grid, stability_counter, is_processing>>
         /\ Emits("apply_manual_correction", "corrected",
                  << <<"game_state_updated", fen, "">>,
                     <<"log_message", "warning", "Manual correction applied.">> >>, <<>>)
    ELSE /\ UNCHANGED <<board, game_history, current_stable_grid, pending_grid,
                       stability_counter, is_processing>>
         /\ Returns("apply_manual_correction", "value_error", "ValueError", <<>>, <<>>)
         /\ signals' = <<InvalidFen>>

\* apply_manual_correction which drops the pending grid before it parses
apply_manual_correction_clearing_first(fen) ==
    IF fen_is_valid(fen)
    THEN /\ board' = set_fen(fen)
         /\ game_history' = <<>>
         /\ current_stable_grid' = _fen_to_grid(fen)
         /\ pending_grid' = NoGrid
         /\ stability_counter' = 0
         /\ UNCHANGED is_processing
         /\ Emits("apply_manual_correction", "corrected",
                  << <<"game_state_updated", fen, "">>,
                     <<"log_message", "warning", "Manual correction applied.">> >>, <<>>)
    ELSE /\ pending_grid' = NoGrid
         /\ stability_counter' = 0
         /\ UNCHANGED <<board, game_history, current_stable_grid, is_processing>>
         /\ Returns("apply_manual_correction", "value_error", "ValueError", <<>>, <<>>)
         /\ signals' = <<InvalidFen>>

\* HybridManager.apply_manual_correction with StateManager.set_custom_position,
\* called by MainWindow.paste_fen: Board.set_fen raises ValueError before
\* anything is assigned, and paste_fen reports it.
apply_manual_correction(fen) ==
    IF fen_is_valid(fen)
    THEN /\ board' = set_fen(fen)
         /\ game_history' = <<>>
         /\ current_stable_grid' = _fen_to_grid(fen)
         /\ pending_grid' = NoGrid
         /\ stability_counter' = 0
         /\ UNCHANGED is_processing
         /\ Emits("apply_manual_correction", "corrected",
                  << <<"game_state_updated", fen, "">>,
                     <<"log_message", "warning", "Manual correction applied.">> >>, <<>>)
    ELSE /\ UNCHANGED <<board, game_history, current_stable_grid, pending_grid,
                       stability_counter, is_processing>>
         /\ Returns("apply_manual_correction", "value_error", "ValueError", <<>>, <<>>)
         /\ signals' = <<InvalidFen>>

\* HybridManager.reset_game (the later definition, which the class keeps),
\* with StateManager.reset
reset_game ==
    /\ board' = StartBoard
    /\ game_history' = <<>>
    /\ current_stable_grid' = _get_initial_grid
    /\ pending_grid' = NoGrid
    /\ stability_counter' = 0
    /\ is_processing' = FALSE
    /\ Emits("reset_game", "reset",
             << <<"game_state_updated", get_fen(StartBoard), "">>,
                <<"log_message", "info", "Game reset.">> >>, <<>>)

\* What HybridManager and StateManager do not have.
chess_system_vars ==
    <<move_list, last_move, last_occupancy_grid, expected_occupancy, stable_elapsed,
      forced, prior, seen_grid, seen_elapsed>>

\* ProcessingThread's frame: update_board_state on the camera's colour grid.
HybridFrame ==
    \E promo_char \in {"q", "r", "b", "n"} :
        /\ camera = pending_grid => stability_counter < MaxStability
        /\ update_board_state(camera, promo_char)
        /\ UNCHANGED <<chess_system_vars, settings_vars, worker_vars, played, camera, commands>>

\* A player's hand moves a piece of the physical board.
HybridHand ==
    \E scene \in HybridScenes :
        /\ Len(scene) > Len(played)
        /\ SubSeq(scene, 1, Len(played)) = played
        /\ played' = Append(played, scene[Len(played) + 1])
        /\ camera' = ColourGrid(played')
        /\ UNCHANGED <<chess_system_vars, settings_vars, worker_vars, board, hybrid_vars,
                       commands>>
        /\ Returns("hand", "", "None", <<>>, <<>>)

\* The undo button
HybridUndo ==
    /\ commands < MaxCommands
    /\ commands' = commands + 1
    /\ HybridManager_undo_last_move
    /\ UNCHANGED <<chess_system_vars, settings_vars, worker_vars, played, camera>>

\* The manual-correction dialog, accepted with a position
ManualCorrection ==
    \E fen \in Fens :
        /\ commands < MaxCommands
        /\ commands' = commands + 1
        /\ apply_manual_correction(fen)
        /\ UNCHANGED <<chess_system_vars, settings_vars, worker_vars, played, camera>>

\* The reset button
ResetGame ==
    /\ commands < MaxCommands
    /\ commands' = commands + 1
    /\ reset_game
    /\ UNCHANGED <<chess_system_vars, settings_vars, worker_vars, played, camera>>

InitHybrid == Constructed /\ camera = ColourGrid(<<>>)

NextHybrid == HybridFrame \/ HybridHand \/ HybridUndo \/ ManualCorrection \/ ResetGame

SpecHybrid == InitHybrid /\ [][NextHybrid]_vars

(***************************************************************************)
(* The HybridManager's debounce on its own: frames are counted as the      *)
(* camera delivers them, and the stability slider changes the threshold.   *)
(***************************************************************************)
\* The frames delivered in a row with the same grid.
MaxFrames == 7

\* The changes of a setting made in one session.
MaxSettings == 1

\* The stability slider's values that are tried (its range is 1 to 30).
Thresholds == {1, 2, STABILITY_THRESHOLD}

\* HybridManager.update_stability_threshold
update_stability_threshold(value) ==
    /\ stability_threshold' = value
    /\ UNCHANGED <<board, game_history, current_stable_grid, pending_grid,
                   stability_counter, is_processing>>
    /\ Emits("update_stability_threshold", "set",
             << <<"log_message", "info",
                  "Stability Threshold set to " \o ToString(value) \o " frames">> >>,
             <<>>)

\* ProcessingThread's frame, counted: update_board_state on the camera's grid.
StabilityFrame ==
    \E promo_char \in {"q", "r", "b", "n"} :
        /\ camera = seen_grid => seen_frames < MaxFrames
        /\ update_board_state(camera, promo_char)
        /\ seen_grid' = camera
        /\ seen_frames' = IF camera = seen_grid THEN seen_frames + 1 ELSE 1
        /\ UNCHANGED <<move_list, last_move, last_occupancy_grid, expected_occupancy,
                       stable_elapsed, forced, prior, seen_elapsed,
                       stability_threshold, auto_sync_on_reset, current_yolo_grid,
                       in_process_change, worker_vars, played, camera, commands>>

\* The stability slider is moved.
UpdateStabilityThreshold ==
    \E value \in Thresholds :
        /\ commands < MaxSettings
        /\ commands' = commands + 1
        /\ update_stability_threshold(value)
        /\ UNCHANGED <<chess_system_vars, auto_sync_on_reset, current_yolo_grid,
                       seen_frames, in_process_change, worker_vars, played, camera>>

NextStability == StabilityFrame \/ HybridHand \/ UpdateStabilityThreshold

SpecStability == InitHybrid /\ [][NextStability]_vars

(***************************************************************************)
(* The HybridManager's reset, with the YOLO detections the processing      *)
(* thread delivers and the "Auto-sync on Reset" checkbox.                  *)
(***************************************************************************)
\* The detector's class names, as the piece_map of sync_board_from_camera
\* spells them.
PIECE_CLASSES == <<"pawn", "knight", "bishop", "rook", "queen", "king">>

class_name(piece) ==
    IF piece = 0 THEN "None"
    ELSE (IF piece_color(piece) THEN "white-" ELSE "black-")
            \o PIECE_CLASSES[piece_type(piece)]

\* The pieces standing on the physical board after the relocations p.
RECURSIVE Standing(_)
Standing(p) ==
    IF p = <<>> THEN StartPieces
    ELSE LET before == Standing(SubSeq(p, 1, Len(p) - 1))
             last == p[Len(p)]
         IN  [before EXCEPT ![last[2]] = before[last[1]], ![last[1]] = 0]

\* The grid of YOLO classes of a frame: a class name, or "None" where
\* nothing is detected.
YoloGrid(p) ==
    LET on == Standing(p)
    IN  [r \in 0..7 |-> [c \in 0..7 |-> class_name(on[square(c, 7 - r)])]]

\* HybridManager.update_yolo_state
update_yolo_state(grid) ==
    /\ current_yolo_grid' = grid
    /\ UNCHANGED <<board, game_history, current_stable_grid, pending_grid,
                   stability_counter, is_processing>>
    /\ Emits("update_yolo_state", "", <<>>, <<>>)

\* ProcessingThread's frame: update_yolo_state on the detections.
YoloFrame ==
    /\ update_yolo_state(YoloGrid(played))
    /\ UNCHANGED <<chess_system_vars, stability_threshold, auto_sync_on_reset,
                   seen_frames, in_process_change, worker_vars, played, camera,
                   commands>>

\* The "Auto-sync on Reset" checkbox changes state.
SetAutoSync ==
    \E checked \in BOOLEAN :
        /\ commands < MaxSettings
        /\ commands' = commands + 1
        /\ auto_sync_on_reset' = checked
        /\ UNCHANGED <<board, game_history, current_stable_grid, pending_grid,
                       stability_counter, is_processing>>
        /\ Emits("setattr", "", <<>>, <<>>)
        /\ UNCHANGED <<chess_system_vars, stability_threshold, current_yolo_grid,
                       seen_frames, in_process_change, worker_vars, played, camera>>

NextReset == HybridHand \/ YoloFrame \/ SetAutoSync \/ ResetGame

SpecReset == InitHybrid /\ [][NextReset]_vars

(***************************************************************************)
(* The HybridManager while a change is being processed.  The promotion     *)
(* dialog of MainWindow.ask_for_promotion runs an event loop of its own,   *)
(* so the frames the processing thread has queued are delivered while      *)
(* _process_change waits for the answer; and any call of _process_change   *)
(* may raise.                                                              *)
(***************************************************************************)
\* The relocations on the physical board that play a line.
Relocations(line) ==
    [i \in 1..Len(line) |-> <<line[i].from_square, line[i].to_square>>]

\* What the hands do after 1.h4 g5 2.hxg5 h6 3.gxh6 Nf6 4.h7 Rg8.
ProcessingScenes ==
    { << <<55, 63>>, <<48, 40>> >>,     \* h7-h8 promotes, then a7-a6
      << <<55, 62>> >>,                 \* h7xg8 promotes
      << <<12, 28>>, <<55, 63>> >> }    \* e2-e4, then h7-h8 out of turn

\* Where move processing raises: nowhere, in _infer_move before a move is
\* made, or in what follows make_move.
Raises == {"nowhere", "before the move", "after the move"}

\* "Stable board change detected": the log line before _process_change.
ChangeDetected ==
    <<"log_message", "debug", "Stable board change detected. Inferring move...">>

\* Whether this grid, handed to update_board_state, has settled on a change
\* that _infer_move asks the promotion dialog about.
settles_on_promotion(visual_grid) ==
    /\ current_stable_grid # NoGrid
    /\ (IF pending_grid = visual_grid THEN stability_counter + 1 ELSE 0)
           >= stability_threshold
    /\ visual_grid # current_stable_grid
    /\ HybridManager_infer_move(board, current_stable_grid, visual_grid, "q").move_uci
         # HybridManager_infer_move(board, current_stable_grid, visual_grid, "r").move_uci

\* update_board_state without "if self.is_processing: return"
reaches_dialog_while_processing(visual_grid) ==
    settles_on_promotion(visual_grid)

\* Whether update_board_state, handed this grid, gets as far as the promotion
\* dialog.
reaches_dialog(visual_grid) ==
    /\ ~is_processing
    /\ settles_on_promotion(visual_grid)

\* _process_change raising in what follows make_move: the move is made or
\* refused, and the signals up to there are emitted.
raise_after_move(made, move_uci) ==
    /\ move_uci # "None"
    /\ board' = made.board
    /\ game_history' = made.game_history
    /\ Emits("update_board_state", "raised",
             <<ChangeDetected,
               <<"log_message", "info", "Inferred Move: " \o move_uci>>>>
             \o (IF made.made
                 THEN << <<"game_state_updated", get_fen(made.board), move_uci>>,
                         <<"log_message", "success",
                           "Move " \o move_uci \o " confirmed.">> >>
                 ELSE << <<"log_message", "warning",
                           "Illegal move inferred: " \o move_uci>> >>),
             <<>>)

\* _process_change on what _infer_move returned, raising or not.
process_change_raising(inferred, raised) ==
    CASE raised = "nowhere" -> _process_change(inferred, <<ChangeDetected>>)
      [] raised = "before the move" ->
            /\ UNCHANGED <<board, game_history>>
            /\ Emits("update_board_state", "raised", <<ChangeDetected>>, <<>>)
      [] raised = "after the move" ->
            raise_after_move(StateManager_make_move(board, game_history,
                                                    inferred.move_uci),
                             inferred.move_uci)

\* update_board_state from "self._process_change(self.pending_grid)" to the
\* end of its finally clause.
finish_change(promo_char, raised) ==
    /\ process_change_raising(
           HybridManager_infer_move(board, current_stable_grid, pending_grid',
                                    promo_char),
           raised)
    /\ current_stable_grid' = pending_grid'
    /\ is_processing' = FALSE

\* update_board_state as far as it runs before the event loop runs again: to
\* its return, or to the promotion dialog.
update_board_state_to_dialog(visual_grid, promo_char, raised) ==
    IF reaches_dialog(visual_grid)
    THEN /\ pending_grid' = visual_grid
         /\ stability_counter' = IF pending_grid = visual_grid
                                 THEN stability_counter + 1 ELSE 0
         /\ is_processing' = TRUE
         /\ in_process_change' = in_process_change + 1
         /\ UNCHANGED <<board, game_history, current_stable_grid>>
         /\ Emits("update_board_state", "asking", <<ChangeDetected>>, <<>>)
    ELSE /\ UNCHANGED in_process_change
         /\ IF raised = "nowhere"
            THEN update_board_state(visual_grid, promo_char)
            ELSE /\ ~is_processing
                 /\ current_stable_grid # NoGrid
                 /\ pending_grid' = visual_grid
                 /\ stability_counter' = IF pending_grid = visual_grid
                                         THEN stability_counter + 1 ELSE 0
                 /\ stability_counter' >= stability_threshold
                 /\ visual_grid # current_stable_grid
                 /\ finish_change(promo_char, raised)

\* ask_for_promotion returns (or raises) and update_board_state runs to its
\* end.
promotion_answered(promo_char, raised) ==
    /\ in_process_change > 0
    /\ in_process_change' = in_process_change - 1
    /\ UNCHANGED <<pending_grid, stability_counter>>
    /\ finish_change(promo_char, raised)

\* ProcessingThread's frame, delivered by whichever event loop is running.
ProcessingFrame ==
    \E raised \in Raises :
        /\ camera = pending_grid => stability_counter < MaxStability
        /\ update_board_state_to_dialog(camera, "q", raised)
        /\ UNCHANGED <<chess_system_vars, stability_threshold, auto_sync_on_reset,
                       current_yolo_grid, seen_frames, worker_vars, played, camera,
                       commands>>

\* The promotion dialog is closed.
PromotionAnswered ==
    \E promo_char \in {"q", "r", "b", "n"}, raised \in Raises :
        /\ promotion_answered(promo_char, raised)
        /\ UNCHANGED <<chess_system_vars, stability_threshold, auto_sync_on_reset,
                       current_yolo_grid, seen_frames, worker_vars, played, camera,
                       commands>>

\* A player's hand moves a piece of the physical board; no hand moves while
\* the dialog is open on the player's screen.
ProcessingHand ==
    \E scene \in ProcessingScenes :
        LET whole == Relocations(PromotionLine) \o scene
        IN  /\ in_process_change = 0
            /\ Len(whole) > Len(played)
            /\ SubSeq(whole, 1, Len(played)) = played
            /\ played' = Append(played, whole[Len(played) + 1])
            /\ camera' = ColourGrid(played')
            /\ UNCHANGED <<chess_system_vars, settings_vars, worker_vars, board,
                           hybrid_vars, commands>>
            /\ Returns("hand", "", "None", <<>>, <<>>)

\* The state update_board_state leaves after confirming the last move of
\* 1.h4 g5 2.hxg5 h6 3.gxh6 Nf6 4.h7 Rg8.
InitProcessing ==
    LET line == PromotionLine
        last == line[Len(line)]
        grid == ColourGrid(Relocations(line))
    IN  /\ board = After(line)
        /\ move_list = <<>>
        /\ last_move = NoMove
        /\ last_occupancy_grid = NoGrid
        /\ expected_occupancy = _get_board_occupancy(StartBoard)
        /\ stable_elapsed = DebounceTime + 1
        /\ op = "update_board_state" /\ outcome = "accepted" /\ ret = "None"
        /\ logs = <<>>
        /\ spoken = Announced(After(line), last)
        /\ played = Relocations(line)
        /\ camera = grid
        /\ forced = 0
        /\ commands = 0
        /\ prior = NoPrior
        /\ seen_grid = NoGrid
        /\ seen_elapsed = 0
        /\ game_history = line
        /\ current_stable_grid = grid
        /\ pending_grid = grid
        /\ stability_counter = STABILITY_THRESHOLD
        /\ is_processing = FALSE
        /\ signals = <<ChangeDetected,
                       <<"log_message", "info", "Inferred Move: " \o uci(last)>>,
                       <<"game_state_updated", get_fen(After(line)), uci(last)>>,
                       <<"log_message", "success",
                         "Move " \o uci(last) \o " confirmed.">> >>
        /\ stability_threshold = STABILITY_THRESHOLD
        /\ auto_sync_on_reset = FALSE
        /\ current_yolo_grid = NoGrid
        /\ seen_frames = 0
        /\ in_process_change = 0
        /\ state = "WAITING"
        /\ calibration_matrix = "None"
        /\ request_calibration = FALSE
        /\ rotation_index = 0
        /\ last_raw_corners = "None"
        /\ in_update = FALSE
        /\ last_grid = NoGrid

NextProcessing == ProcessingFrame \/ PromotionAnswered \/ ProcessingHand

SpecProcessing == InitProcessing /\ [][NextProcessing]_vars

(***************************************************************************)
(* The VisionWorker of main_without_ai_refactored.py and its               *)
(* OccupancyChessSystem.  The worker's run loop is the vision thread; the  *)
(* buttons of MainWindow call its command_ methods from the UI thread, and *)
(* nothing makes the one wait for the other.  A loop iteration is taken in *)
(* two steps, up to its call of chess_system.update and the call itself,   *)
(* and the commands run between the two as well.  The image processing is  *)
(* left out: the camera's grid is the one the physical board shows,        *)
(* whatever the rotation; so is the worker's own speech where the command  *)
(* calls the chess system.                                                 *)
(***************************************************************************)
\* The commands given in one session.
MaxWorkerCommands == 4

\* The physical board: 1.e4, then e7-e5.
WorkerScenes == { <<{12, 28}, {52, 36}>> }

\* VisionWorker._apply_calibration(corners)
_apply_calibration(corners) ==
    /\ calibration_matrix' = "matrix"
    /\ state' = "SETUP"
    /\ last_raw_corners' = corners

\* VisionWorker.command_rotate
command_rotate ==
    /\ rotation_index' = (rotation_index + 1) % 4
    /\ IF last_raw_corners # "None"
       THEN _apply_calibration(last_raw_corners)
       ELSE UNCHANGED <<calibration_matrix, state, last_raw_corners>>
    /\ UNCHANGED <<core_vars, request_calibration>>
    /\ Returns("command_rotate", "", "None",
               <<"Rotated Board " \o ToString(rotation_index' * 90) \o "°">>, <<>>)

\* VisionWorker.command_calibrate
command_calibrate ==
    /\ request_calibration' = TRUE
    /\ UNCHANGED <<core_vars, state, calibration_matrix, rotation_index,
                   last_raw_corners>>
    /\ Returns("command_calibrate", "", "None", <<>>, <<>>)

\* VisionWorker.command_start_game; read_ok is whether self.cap.read() gave a
\* frame.
command_start_game(read_ok, elapsed) ==
    IF calibration_matrix = "None"
    THEN /\ UNCHANGED <<core_vars, state, calibration_matrix, request_calibration,
                        rotation_index, last_raw_corners>>
         /\ Returns("command_start_game", "uncalibrated", "None",
                    <<"Please calibrate first!">>, <<>>)
    ELSE /\ IF read_ok
            THEN sync_board(camera, elapsed)
            ELSE /\ UNCHANGED core_vars
                 /\ Returns("command_start_game", "started", "None", <<>>,
                            <<"Game Started">>)
         /\ state' = "GAME"
         /\ UNCHANGED <<calibration_matrix, request_calibration, rotation_index,
                        last_raw_corners>>

\* VisionWorker.command_stop_game: a new OccupancyChessSystem
command_stop_game ==
    /\ state' = "SETUP"
    /\ board' = StartBoard
    /\ move_list' = <<>>
    /\ last_move' = NoMove
    /\ last_occupancy_grid' = NoGrid
    /\ expected_occupancy' = _get_board_occupancy(StartBoard)
    /\ stable_elapsed' = DebounceTime + 1
    /\ UNCHANGED <<calibration_matrix, request_calibration, rotation_index,
                   last_raw_corners>>
    /\ Returns("command_stop_game", "", "None", <<>>,
               <<"Game Stopped. System Reset.">>)

\* VisionWorker.command_undo
command_undo ==
    /\ IF state = "GAME"
       THEN undo_last_move
       ELSE /\ UNCHANGED core_vars
            /\ Returns("command_undo", "ignored", "None", <<>>, <<>>)
    /\ UNCHANGED <<state, calibration_matrix, request_calibration, rotation_index,
                   last_raw_corners>>

\* VisionWorker.run, one iteration of its loop up to the call of
\* chess_system.update: the calibration that was requested, found being
\* what findChessboardCorners answers, and the test of the state.
run(found) ==
    /\ IF request_calibration
       THEN /\ IF found
               THEN /\ _apply_calibration("corners")
                    /\ Returns("run", "calibrated", "None",
                               <<"Calibrated Successfully. Empty board reference captured.">>,
                               <<"Calibrated">>)
               ELSE /\ UNCHANGED <<calibration_matrix, state, last_raw_corners>>
                    /\ Returns("run", "not_found", "None",
                               <<"Calibration Failed: Board not found.">>, <<>>)
            /\ request_calibration' = FALSE
       ELSE /\ UNCHANGED <<calibration_matrix, state, last_raw_corners,
                           request_calibration>>
            /\ Returns("run", "", "None", <<>>, <<>>)
    /\ in_update' = (calibration_matrix' # "None" /\ state' = "GAME")
    /\ UNCHANGED <<core_vars, rotation_index>>

\* The vision thread: an iteration of the loop, up to its update.
WorkerFrame ==
    \E found \in BOOLEAN :
        /\ ~in_update
        /\ request_calibration \/ (calibration_matrix # "None" /\ state = "GAME")
        /\ run(found)
        /\ UNCHANGED <<camera_vars, hybrid_vars, settings_vars, last_grid>>

\* The vision thread: the call of chess_system.update the iteration makes.
WorkerUpdate ==
    \E dt \in Delays :
        /\ in_update
        /\ in_update' = FALSE
        /\ update(camera, FALSE, FALSE, Saturate(stable_elapsed + dt))
        /\ prior' = IF outcome' = "accepted" THEN Position ELSE prior
        /\ See(camera, dt)
        /\ UNCHANGED <<played, camera, forced, commands, hybrid_vars, settings_vars,
                       state, calibration_matrix, request_calibration,
                       rotation_index, last_raw_corners, last_grid>>

\* What a command of the UI thread leaves alone.
CommandGiven ==
    /\ commands < MaxWorkerCommands
    /\ commands' = commands + 1
    /\ UNCHANGED <<played, camera, forced, hybrid_vars, settings_vars, last_grid>>

\* The Calibrate button
CommandCalibrate ==
    /\ CommandGiven
    /\ command_calibrate
    /\ UNCHANGED <<prior, seen_grid, seen_elapsed, in_update>>

\* The Rotate button
CommandRotate ==
    /\ CommandGiven
    /\ command_rotate
    /\ UNCHANGED <<prior, seen_grid, seen_elapsed, in_update>>

\* The Start button
CommandStartGame ==
    \E read_ok \in BOOLEAN, dt \in Delays :
        /\ CommandGiven
        /\ command_start_game(read_ok, Saturate(stable_elapsed + dt))
        /\ prior' = IF op' = "sync_board" THEN NoPrior ELSE prior
        /\ IF op' = "sync_board" THEN See(camera, dt)
                                 ELSE UNCHANGED <<seen_grid, seen_elapsed>>
        /\ UNCHANGED in_update

\* The Stop button.  An update the vision thread is making goes on: on the
\* new chess system when it had not been called yet, on the discarded one
\* otherwise.
CommandStopGame ==
    \E discarded \in BOOLEAN :
        /\ CommandGiven
        /\ command_stop_game
        /\ prior' = NoPrior
        /\ seen_grid' = NoGrid
        /\ seen_elapsed' = 0
        /\ in_update' = (in_update /\ ~discarded)

\* The Undo button
CommandUndo ==
    /\ CommandGiven
    /\ command_undo
    /\ prior' = IF op' = "undo_last_move" THEN NoPrior ELSE prior
    /\ UNCHANGED <<seen_grid, seen_elapsed, in_update>>

\* A player's hand changes the physical board.
WorkerHand ==
    \E scene \in WorkerScenes :
        /\ Len(scene) > Len(played)
        /\ SubSeq(scene, 1, Len(played)) = played
        /\ played' = Append(played, scene[Len(played) + 1])
        /\ camera' = SceneGrid(played')
        /\ UNCHANGED <<core_vars, forced, commands, prior, seen_grid, seen_elapsed,
                       hybrid_vars, settings_vars, worker_vars>>
        /\ Returns("hand", "", "None", <<>>, <<>>)

NextWorker ==
    \/ WorkerFrame \/ WorkerUpdate \/ WorkerHand
    \/ CommandCalibrate \/ CommandRotate \/ CommandStartGame \/ CommandStopGame
    \/ CommandUndo

SpecWorker == Init /\ [][NextWorker]_vars

(***************************************************************************)
(* The VisionWorker of main_without_ai.py: its OccupancyChessSystem is     *)
(* that of core/chess_logic.py word for word, its loop keeps the grid of   *)
(* the last frame in last_grid, and its command_start_game does not ask    *)
(* whether a calibration was made (nor does that of main.py).              *)
(***************************************************************************)
\* main_without_ai.py, VisionWorker.command_start_game
main_without_ai_command_start_game(elapsed) ==
    /\ state' = "GAME"
    /\ IF last_grid # NoGrid
       THEN sync_board(last_grid, elapsed)
       ELSE /\ UNCHANGED core_vars
            /\ Returns("command_start_game", "started", "None", <<>>, <<>>)
    /\ UNCHANGED <<calibration_matrix, request_calibration, rotation_index,
                   last_raw_corners>>

\* main_without_ai.py, VisionWorker.run: one iteration of its loop up to the
\* call of chess_system.update.
main_without_ai_run(found) ==
    /\ IF request_calibration
       THEN /\ IF found
               THEN /\ _apply_calibration("corners")
                    /\ Returns("run", "calibrated", "None",
                               <<"Calibrated Successfully. Empty board reference captured.">>,
                               <<"Calibrated.">>)
               ELSE /\ UNCHANGED <<calibration_matrix, state, last_raw_corners>>
                    /\ Returns("run", "not_found", "None",
                               <<"Calibration Failed: Board not found.">>,
                               <<"Board not found.">>)
            /\ request_calibration' = FALSE
       ELSE /\ UNCHANGED <<calibration_matrix, state, last_raw_corners,
                           request_calibration>>
            /\ Returns("run", "", "None", <<>>, <<>>)
    /\ last_grid' = IF state' \in {"SETUP", "GAME"} /\ calibration_matrix' # "None"
                    THEN camera ELSE last_grid
    /\ in_update' = (calibration_matrix' # "None" /\ state' = "GAME")
    /\ UNCHANGED <<core_vars, rotation_index>>

\* The vision thread: an iteration of the loop, up to its update.
MainWithoutAiFrame ==
    \E found \in BOOLEAN :
        /\ ~in_update
        /\ request_calibration \/ calibration_matrix # "None"
        /\ main_without_ai_run(found)
        /\ UNCHANGED <<camera_vars, hybrid_vars, settings_vars>>

\* The Start button
MainWithoutAiStartGame ==
    \E dt \in Delays :
        /\ CommandGiven
        /\ main_without_ai_command_start_game(Saturate(stable_elapsed + dt))
        /\ prior' = IF op' = "sync_board" THEN NoPrior ELSE prior
        /\ IF op' = "sync_board" THEN See(last_grid, dt)
                                 ELSE UNCHANGED <<seen_grid, seen_elapsed>>
        /\ UNCHANGED in_update

NextMainWithoutAi ==
    \/ MainWithoutAiFrame \/ WorkerUpdate \/ WorkerHand
    \/ CommandCalibrate \/ CommandRotate \/ MainWithoutAiStartGame
    \/ CommandStopGame \/ CommandUndo

SpecMainWithoutAi == Init /\ [][NextMainWithoutAi]_vars

(***************************************************************************)
(* The claims about core/chess_logic.py, checked under Spec.               *)
(***************************************************************************)
\* The branches of update that treat the grid as settled.
SettledOutcomes == {"match", "no_move", "accepted", "illegal", "forced"}

\* The camera's grid at a square.
Seen(s) == camera[7 - square_rank(s)][square_file(s)]

\* The squares that emptied and that filled, by the board and the camera.
Vacated == {s \in SQUARES : board.pieces[s] # 0 /\ ~Seen(s)}
Filled == {s \in SQUARES : board.pieces[s] = 0 /\ Seen(s)}

\* The capture case: one square vacated, none filled.
CaptureCase == Cardinality(Vacated) = 1 /\ Filled = {}

\* The log line update leaves only when called in debug_mode on a capture case.
DebugCaptureLine ==
    "DEBUG: Capture detected (Source disappeared). Target unknown in Debug Mode."

InDebugMode(lines) == \E i \in DOMAIN lines : lines[i] = DebugCaptureLine

\* C1: an update that rejects the inferred move as illegal leaves the piece
\* placement, the side to move and the move history as they were before the
\* call, with no_turn_mode on or off.
C1_RejectionLeavesStateUnchanged ==
    [][(op' = "update" /\ outcome' = "illegal") =>
            /\ board'.pieces = board.pieces
            /\ board'.turn = board.turn
            /\ board'.move_stack = board.move_stack
            /\ move_list' = move_list]_vars

\* C2: an update that accepts a move applies it once to the board (whose move
\* history grows by that move), passes the turn to the mover's opponent and
\* returns the move's SAN as formed in the position before the move; in every variant
\* of OccupancyChessSystem, occupancy_system.py among them.
C2_AcceptedMoveAppliedOnceAndNamed ==
    [][(op' = "update" /\ outcome' = "accepted") =>
          /\ Len(board'.move_stack) = Len(board.move_stack) + 1
          /\ LET move == board'.move_stack[Len(board'.move_stack)].move
                 mover == piece_color(board.pieces[move.from_square])
                 from == [board EXCEPT !.turn = mover]
             IN  /\ board'.pieces = push(from, move).pieces
                 /\ board'.turn # mover
                 /\ ret' = san(from, move)]_vars

\* C3: update runs move inference on a grid only when it has been handed that
\* same grid, without any change, for at least debounce_time.
C3_SettledOnlyAfterDebounce ==
    (op = "update" /\ outcome \in SettledOutcomes \ {"match"})
        => seen_elapsed >= DebounceTime

\* C4: when the grid update is handed equals the occupancy of the current
\* board, update returns no move and leaves the board, the side to move and
\* the history unchanged, however often that grid comes again.
C4_MatchingGridIsNoOp ==
    [][(op' = "update" /\ \A s \in SQUARES : Seen(s) = (board.pieces[s] # 0)) =>
            /\ board' = board
            /\ move_list' = move_list
            /\ last_move' = last_move
            /\ ret' = "None"]_vars

\* C4, witness: a settled grid that matches the board after a move was
\* accepted.
C4_Witness ==
    /\ op = "update"
    /\ outcome = "match"
    /\ move_list # <<>>

\* C5: after update accepts a move inferred from the settled grid G, the
\* occupancy of the new board is G.
C5_AcceptedMoveExplainsGrid ==
    [][(op' = "update" /\ outcome' = "accepted") =>
            _get_board_occupancy(board') = camera]_vars

\* C8 as stated: undo_last_move after an accepted move returns true and brings
\* back the piece placement, the side to move and the history from before the
\* move; on an empty history it returns false and changes nothing.
C8_UndoRestoresPositionBeforeCall ==
    [][/\ (op' = "undo_last_move" /\ prior # NoPrior) =>
            /\ ret' = "True"
            /\ board'.pieces = prior.pieces
            /\ board'.turn = prior.turn
            /\ move_list' = prior.move_list
       /\ (op' = "undo_last_move" /\ move_list = <<>>) =>
            /\ ret' = "False"
            /\ UNCHANGED core_vars]_vars

\* C8 as amended: undo_last_move after an accepted move returns true and brings
\* back the piece placement and the history from before the move, with the
\* side that made the move to move; on an empty history it returns false and
\* changes nothing.
C8_UndoRestoresPositionMovePlayedFrom ==
    [][/\ (op' = "undo_last_move" /\ prior # NoPrior) =>
            /\ ret' = "True"
            /\ board'.pieces = prior.pieces
            /\ board'.turn = piece_color(prior.pieces[last_move.from_square])
            /\ move_list' = prior.move_list
       /\ (op' = "undo_last_move" /\ move_list = <<>>) =>
            /\ ret' = "False"
            /\ UNCHANGED core_vars]_vars

\* C8, witness: Black's move accepted first (no_turn_mode) has been undone.
C8_Witness ==
    /\ op = "undo_last_move"
    /\ ret = "True"
    /\ board.pieces = StartPieces
    /\ board.turn = BLACK

\* The candidates of the capture case as the code collects them, and the value
\* of the piece a candidate captures.
Candidates == capture_candidates(board, CHOOSE s \in Vacated : TRUE, camera)

CapturedValue(m) ==
    LET ty == piece_type(board.pieces[m.to_square])
    IN  CASE ty = QUEEN -> 9
          [] ty = ROOK -> 5
          [] ty \in {BISHOP, KNIGHT} -> 3
          [] ty = PAWN -> 1
          [] OTHER -> 0

\* C9: in the capture case with more than one candidate, the move accepted
\* captures a piece of the greatest value among the candidates, and is the
\* first in enumeration order of those that do.
C9_HighestValueFirstFound ==
    [][(op' = "update" /\ outcome' = "accepted" /\ CaptureCase
            /\ Len(Candidates) > 1) =>
          \E i \in 1..Len(Candidates) :
            /\ last_move' = Candidates[i]
            /\ \A j \in 1..Len(Candidates) :
                  /\ CapturedValue(Candidates[j]) <= CapturedValue(Candidates[i])
                  /\ j < i => CapturedValue(Candidates[j]) < CapturedValue(Candidates[i])]_vars

\* C9, witness: the knight on e6 has taken the queen on d8, the second of its
\* four candidates.
C9_Witness ==
    /\ op = "update"
    /\ outcome = "accepted"
    /\ last_move = Move(44, 59, 0)
    /\ Len(logs) >= 3

\* The legal captures from the vacated square, and those of them whose
\* destination the camera's grid shows occupied.
LegalCaptures ==
    {m \in legal_moves_between(board, Vacated, SQUARES) : is_capture(board, m)}

CapturesOnOccupied == {m \in LegalCaptures : Seen(m.to_square)}

\* C10 as stated: in the capture case with debug_mode off, the candidates are
\* all the legal captures from the vacated square; a single one is the move
\* played, and with none no move is inferred and the game state is unchanged.
C10_EveryLegalCaptureIsCandidate ==
    [][(op' = "update" /\ outcome' \in SettledOutcomes /\ CaptureCase
            /\ ~InDebugMode(logs')) =>
          /\ Cardinality(LegalCaptures) = 1 =>
                outcome' = "accepted" /\ last_move' \in LegalCaptures
          /\ LegalCaptures = {} =>
                /\ outcome' = "no_move"
                /\ ret' = "None"
                /\ board' = board
                /\ move_list' = move_list]_vars

\* C10 as amended: the candidates are the legal captures from the vacated
\* square whose destination is occupied in the settled grid.
C10_CandidatesOnOccupiedSquares ==
    [][(op' = "update" /\ outcome' \in SettledOutcomes /\ CaptureCase
            /\ ~InDebugMode(logs')) =>
          /\ Cardinality(CapturesOnOccupied) = 1 =>
                outcome' = "accepted" /\ last_move' \in CapturesOnOccupied
          /\ CapturesOnOccupied = {} =>
                /\ outcome' = "no_move"
                /\ ret' = "None"
                /\ board' = board
                /\ move_list' = move_list]_vars

\* C10, witness: the pawn on e4, lifted, has taken on d5, its only candidate.
C10_Witness ==
    /\ op = "update"
    /\ outcome = "accepted"
    /\ last_move = Move(28, 35, 0)
    /\ board.pieces[35] = Piece(PAWN, WHITE)
    /\ Len(logs) = 1

(***************************************************************************)
(* The claims about chess_hybrid's HybridManager, checked under SpecHybrid. *)
(***************************************************************************)
\* The move the frame being handled infers from the settled grid.
RejectedMove ==
    HybridManager_infer_move(board, current_stable_grid, camera, "q").move_uci

\* C6: whenever update_board_state rejects an inferred move as illegal, the
\* call emits illegal_move_attempted with the rejected move.
C6_RejectionEmitsIllegalMoveAttempted ==
    [][(op' = "update_board_state" /\ outcome' = "rejected")
        => \E i \in DOMAIN signals' :
              signals'[i] = <<"illegal_move_attempted", RejectedMove>>]_vars

\* The desynchronisation the program shows: MainWindow.handle_illegal_move
\* opens the DesyncDialog on illegal_move_attempted, and nothing else does;
\* HybridManager keeps no field for it.
DESYNCED == \E i \in DOMAIN signals : signals[i][1] = "illegal_move_attempted"

\* C7: a rejected inferred move raises DESYNCED, an accepted move and an
\* applied manual correction clear it, and no other call changes it.
C7_DesyncedFromRejectionUntilResolved ==
    [][CASE op' = "update_board_state" /\ outcome' = "rejected" -> DESYNCED'
         [] op' = "update_board_state" /\ outcome' = "accepted" -> ~DESYNCED'
         [] op' = "apply_manual_correction" -> ~DESYNCED'
         [] OTHER -> DESYNCED' = DESYNCED]_vars

\* C13: whenever update_board_state infers a move from a settled grid, the
\* grid it compares with, current_stable_grid, is the colour grid of the live
\* board.
C13_InferenceAgainstLiveBoard ==
    [][(op' = "update_board_state" /\ outcome' \in {"accepted", "rejected", "unclear"})
        => current_stable_grid = _fen_to_grid(get_fen(board))]_vars

\* The colour grid of the position a board holds
GridOf(b) ==
    [rank \in 0..7 |-> [file \in 0..7 |-> Colour(b.pieces[square(file, 7 - rank)])]]

\* C14: apply_manual_correction(fen) replaces the canonical board with the
\* supplied position whatever the state was, empties the move history, and
\* re-bases the visual baseline on it: the stable grid is the position's, the
\* pending grid is cleared and the stability counter is zero.
C14_ManualCorrectionReplacesPosition ==
    [][(op' = "apply_manual_correction" /\ outcome' = "corrected") =>
          \E fen \in Fens :
              /\ signals'[1] = <<"game_state_updated", fen, "">>
              /\ get_fen(board') = fen
              /\ board'.move_stack = <<>>
              /\ game_history' = <<>>
              /\ current_stable_grid' = GridOf(board')
              /\ pending_grid' = NoGrid
              /\ stability_counter' = 0]_vars

\* C14 witness: the position after 1.e4 was entered while the camera showed
\* another one and the baseline was the start position's.
C14_Witness ==
    /\ op = "apply_manual_correction" /\ outcome = "corrected"
    /\ board.pieces[28] = Piece(PAWN, WHITE) /\ board.turn = BLACK
    /\ game_history = <<>>
    /\ current_stable_grid[4][4] = "white"
    /\ played # <<>> /\ camera # GridOf(board)

\* The squares the characters of a rank spell
RECURSIVE rank_width(_)
rank_width(chars) ==
    IF chars = <<>> THEN 0
    ELSE (IF \E d \in 1..8 : ToString(d) = Head(chars)
          THEN CHOOSE d \in 1..8 : ToString(d) = Head(chars) ELSE 1)
         + rank_width(Tail(chars))

Unparsable(fen) == \E r \in 1..8 : rank_width(fen.board[r]) # 8

\* C15: when the position descriptor given to manual correction cannot be
\* parsed, the board, the move history, the stable and pending grids and the
\* stability counter are as before the call, and the caller is told.
C15_UnparsableFenMutatesNothing ==
    [][\A fen \in Fens :
          (Unparsable(fen) /\ apply_manual_correction(fen)) =>
              /\ UNCHANGED <<board, game_history, current_stable_grid, pending_grid,
                             stability_counter>>
              /\ ret' = "ValueError"
              /\ signals' = <<InvalidFen>>]_vars

\* C15 witness: an unparsable descriptor was refused with a move in the
\* history and a pending grid under count.
C15_Witness ==
    /\ op = "apply_manual_correction" /\ outcome = "value_error"
    /\ game_history # <<>>
    /\ pending_grid # NoGrid /\ stability_counter > 0

(***************************************************************************)
(* The claims about move inference in core/chess_logic.py, checked under    *)
(* SpecMidgame.                                                            *)
(***************************************************************************)
\* The legal castling moves, and the legal en-passant moves, after which the
\* board's occupancy is the camera's grid.
CastlingMatches ==
    {m \in legal_moves_between(board, {king(board.pieces, board.turn)} \ {-1}, SQUARES) :
        is_castling(board, m) /\ _get_board_occupancy(push(board, m)) = camera}

EnPassantMatches ==
    {m \in legal_moves_between(board, SQUARES, {board.ep_square} \ {-1}) :
        is_en_passant(board, m) /\ _get_board_occupancy(push(board, m)) = camera}

\* update reports the first of the matching moves (played, or forced in
\* debug_mode), and nothing when there is none.
ReportsFirstOf(matching) ==
    IF matching = {}
    THEN /\ outcome' = "no_move"
         /\ ret' = "None"
         /\ board' = board
         /\ move_list' = move_list
    ELSE LET m == in_order(board, matching)[1]
         IN  \/ /\ outcome' = "accepted"
                /\ last_move' = m
                /\ move_list' = Append(move_list, m)
             \/ /\ outcome' = "forced"
                /\ ret' = "Force " \o uci(m)

\* C11: on a settled grid with two squares vacated and two filled the move
\* inferred is the first legal castling move, and with two vacated and one
\* filled the first legal en-passant move, after which the board's occupancy
\* is that grid; without such a move nothing is inferred.
C11_TrialMoveMatchesGrid ==
    [][(op' = "update" /\ outcome' \in SettledOutcomes) =>
          /\ (Cardinality(Vacated) = 2 /\ Cardinality(Filled) = 2)
                => ReportsFirstOf(CastlingMatches)
          /\ (Cardinality(Vacated) = 2 /\ Cardinality(Filled) = 1)
                => ReportsFirstOf(EnPassantMatches)]_vars

\* C11, witness: O-O accepted from the grid with king and rook both moved.
C11_Witness ==
    /\ op = "update"
    /\ outcome = "accepted"
    /\ ret = "O-O"
    /\ last_move = Move(4, 6, 0)
    /\ _get_board_occupancy(board) = camera

\* C12: _infer_move leaves the board as it found it (piece placement, side to
\* move, move stack), with a move or without, in debug_mode or not: every
\* trial move pushed is popped again.
C12_InferenceLeavesBoard ==
    \A debug_mode \in BOOLEAN :
        LET inferred == _infer_move(board, _get_board_occupancy(board), camera,
                                    debug_mode)
        IN  /\ inferred.board.pieces = board.pieces
            /\ inferred.board.turn = board.turn
            /\ inferred.board.move_stack = board.move_stack

\* C12, witness: exd6 e.p. was found by trial and played once, on a stack
\* that holds the four moves before it and no trial move.
C12_Witness ==
    /\ op = "update"
    /\ outcome = "accepted"
    /\ last_move = Move(36, 43, 0)
    /\ board.pieces[35] = 0
    /\ _get_board_occupancy(board) = camera
    /\ Len(board.move_stack) = Len(EnPassantLine) + 1

\* The diff is none of the shapes move inference knows.
OddShape ==
    <<Cardinality(Vacated), Cardinality(Filled)>> \notin {<<1, 1>>, <<1, 0>>, <<2, 2>>, <<2, 1>>}

\* The mismatched squares from a8 along the ranks to h1, each with what the
\* board expects and what the camera shows.
RECURSIVE MismatchText(_, _)
MismatchText(k, first) ==
    IF k = 64 THEN ""
    ELSE LET s == square(k % 8, 7 - (k \div 8))
         IN  IF s \in Vacated \cup Filled
             THEN (IF first THEN "" ELSE ", ") \o square_name(s) \o ": "
                    \o (IF s \in Vacated THEN "Occ->Emp" ELSE "Emp->Occ")
                    \o MismatchText(k + 1, FALSE)
             ELSE MismatchText(k + 1, first)

\* C16: on a settled grid whose diff has none of the shapes 1/1, 1/0, 2/2 and
\* 2/1, update infers no move, leaves board, side to move and move history as
\* they were and logs every mismatched square with its expected and actual
\* state; the next update of the same grid settles again unless it comes
\* within the debounce time of that settle.
C16_OddShapeInfersNothing ==
    [][/\ (op' = "update" /\ outcome' \in SettledOutcomes /\ OddShape) =>
            /\ outcome' \in {"no_move", "match"}
            /\ ret' = "None"
            /\ UNCHANGED <<board, move_list, last_move>>
            /\ Vacated \cup Filled # {} =>
                    logs'[Len(logs')] = "DEBUG: Diffs: " \o MismatchText(0, TRUE)
       /\ (op = "update" /\ outcome = "no_move" /\ op' = "update") =>
            \/ outcome' \in SettledOutcomes
            \/ outcome' = "waiting" /\ stable_elapsed' <= DebounceTime]_vars

\* C16 witness: a grid with three squares vacated and one filled settled with
\* no move, after a settle that had inferred nothing.
C16_Witness ==
    /\ op = "update" /\ outcome = "no_move"
    /\ Cardinality(Vacated) = 3 /\ Cardinality(Filled) = 1
    /\ logs[Len(logs)] = "DEBUG: Diffs: a3: Emp->Occ, a2: Occ->Emp, b2: Occ->Emp, b1: Occ->Emp"
    /\ board = After(CastlingLine) /\ move_list = CastlingLine

\* The inferred move of a 1/1 diff is made by a piece of the side not to move.
OutOfTurn ==
    /\ Cardinality(Vacated) = 1 /\ Cardinality(Filled) = 1
    /\ \A s \in Vacated : piece_color(board.pieces[s]) # board.turn

\* The move a 1/1 diff spells: from the vacated to the filled square, to a
\* queen when a pawn reaches the first or the last rank.
Relocation ==
    LET src == CHOOSE s \in Vacated : TRUE
        dst == CHOOSE s \in Filled : TRUE
    IN  Move(src, dst,
             IF piece_type(board.pieces[src]) = PAWN /\ square_rank(dst) \in {0, 7}
             THEN QUEEN ELSE 0)

\* C17: with no_turn_mode on and debug_mode off, a move inferred for a piece
\* of the side not to move is checked with the side to move switched to that
\* piece's colour, so that it is accepted when it is legal for its own colour
\* and rejected only when it is not.
C17_NoTurnModeSwitchesSide ==
    [][(op' = "update" /\ outcome' \in {"accepted", "illegal"} /\ OutOfTurn
            /\ \E dt \in Delays :
                    update(camera, FALSE, TRUE, Saturate(stable_elapsed + dt))) =>
          LET own == [board EXCEPT !.turn = ~board.turn]
          IN  IF is_legal(own, Relocation)
              THEN /\ outcome' = "accepted"
                   /\ board'.pieces = push(own, Relocation).pieces
                   /\ board'.turn = board.turn
                   /\ last_move' = Relocation
              ELSE outcome' = "illegal"]_vars

\* C17 witness: with White to move after 1.e4 a6 2.e5 d5, Black's d5-d4 was
\* accepted.
C17_Witness ==
    /\ op = "update" /\ outcome = "accepted"
    /\ move_list = Append(EnPassantLine, Move(35, 27, 0))
    /\ board.pieces[27] = Piece(PAWN, BLACK) /\ board.turn = WHITE
    /\ \E i \in DOMAIN logs : logs[i] = "No Turn Mode: Switching turn to Black"

\* C18: in debug_mode a 1/1 diff is applied as a relocation of the piece from
\* the vacated to the filled square with no legality check, after which the
\* board's occupancy is the settled grid, and side to move and move history
\* are as before; a 1/0 diff in debug_mode infers nothing and leaves the
\* board as it was.
C18_DebugRelocation ==
    [][/\ (op' = "update" /\ outcome' = "forced"
                /\ Cardinality(Vacated) = 1 /\ Cardinality(Filled) = 1) =>
            /\ board'.pieces =
                    [board.pieces EXCEPT ![Relocation.from_square] = 0,
                        ![Relocation.to_square] = board.pieces[Relocation.from_square]]
            /\ _get_board_occupancy(board') = camera
            /\ board'.turn = board.turn
            /\ board'.move_stack = board.move_stack
            /\ UNCHANGED move_list
       /\ (op' = "update" /\ InDebugMode(logs') /\ CaptureCase) =>
            /\ outcome' = "no_move" /\ ret' = "None"
            /\ UNCHANGED <<board, move_list, last_move>>]_vars

\* What OccupancyChessSystem._infer_move makes of the camera's grid
InferredMove(debug_mode) ==
    _infer_move(board, _get_board_occupancy(board), camera, debug_mode).move

\* The move takes a pawn to the back rank of the other side.
PawnToBackRank(b, m) ==
    /\ b.pieces[m.from_square] # 0
    /\ piece_type(b.pieces[m.from_square]) = PAWN
    /\ square_rank(m.to_square) = IF piece_color(b.pieces[m.from_square]) THEN 7 ELSE 0

\* C19 as stated: an inferred move that takes a pawn to the opponent's back
\* rank carries a promotion piece, Queen where no promotion-choice callback
\* is registered, and no other inferred move carries a promotion.
C19_PromotionOnBackRankOnly ==
    \A debug_mode \in BOOLEAN :
        InferredMove(debug_mode) # NoMove =>
            InferredMove(debug_mode).promotion =
                IF PawnToBackRank(board, InferredMove(debug_mode)) THEN QUEEN ELSE 0

\* The squares a piece lifted from src may have been put on: the square that
\* filled, or a piece of the other side diagonally next to src which it took.
Destinations(src) ==
    IF Filled # {} THEN Filled
    ELSE {s \in SQUARES : /\ board.pieces[s] # 0
                          /\ piece_color(board.pieces[s]) # piece_color(board.pieces[src])
                          /\ Abs(square_file(s) - square_file(src)) = 1
                          /\ Abs(square_rank(s) - square_rank(src)) = 1}

\* The colour grid of the board with the piece of src put on dst
ColoursAfter(src, dst) ==
    GridOf([board EXCEPT !.pieces = [@ EXCEPT ![src] = 0, ![dst] = board.pieces[src]]])

\* C19, amended: OccupancyChessSystem's inferred move carries a promotion,
\* Queen, exactly when it is inferred outside debug_mode and takes a pawn to
\* the first or the last rank, its own back rank included; HybridManager's
\* inferred move carries a promotion exactly when it takes a pawn to the
\* opponent's back rank, the piece the registered promotion callback answers
\* and Queen when none is registered.
C19_PromotionAsInferred ==
    /\ \A debug_mode \in BOOLEAN :
          InferredMove(debug_mode) # NoMove =>
              InferredMove(debug_mode).promotion =
                  IF /\ ~debug_mode
                     /\ piece_type(board.pieces[InferredMove(debug_mode).from_square]) = PAWN
                     /\ square_rank(InferredMove(debug_mode).to_square) \in {0, 7}
                  THEN QUEEN ELSE 0
    /\ \A src \in Vacated : \A dst \in Destinations(src) :
          \A promotion_callback \in {"None", "q", "r", "b", "n"} :
              (Cardinality(Vacated) = 1 /\ Cardinality(Filled) <= 1
                    /\ piece_color(board.pieces[src]) = board.turn) =>
                  HybridManager_infer_move(board, GridOf(board), ColoursAfter(src, dst),
                                           promotion_callback).move_uci
                    = square_name(src) \o square_name(dst)
                        \o (IF ~PawnToBackRank(board, Move(src, dst, 0)) THEN ""
                            ELSE IF promotion_callback = "None" THEN "q"
                            ELSE promotion_callback)

\* C19 witness: after 1.h4 g5 2.hxg5 h6 3.gxh6 Nf6 4.h7 Rg8 the pawn put on
\* h8 was accepted as h8=Q.
C19_Witness ==
    /\ op = "update" /\ outcome = "accepted" /\ ret = "h8=Q"
    /\ last_move = Move(55, 63, QUEEN)
    /\ board.pieces[63] = Piece(QUEEN, WHITE)
    /\ move_list = Append(PromotionLine, Move(55, 63, QUEEN))

\* C20 as stated: a settle does not reset the start of the plateau, so that
\* the update which follows a settle on the same grid settles as well,
\* whether the grid matched or a move was accepted, rejected or not inferred.
C20_EveryLaterObservationSettles ==
    [][(op = "update" /\ outcome \in SettledOutcomes /\ op' = "update") =>
          outcome' \in SettledOutcomes]_vars

\* C20, amended: a settle resets the start of the plateau unless the grid
\* matched the board. After a match the next update of the same grid settles
\* as well; after a move accepted, rejected or forced, or nothing inferred,
\* it settles exactly when more than the debounce time has passed since that
\* settle.
C20_SettleRestartsDebounce ==
    [][/\ (op' = "update" /\ outcome' \in SettledOutcomes) =>
            stable_elapsed' = IF outcome' = "match" THEN DebounceTime + 1 ELSE 0
       /\ (op = "update" /\ outcome \in SettledOutcomes /\ op' = "update") =>
            \A dt \in Delays, debug_mode \in BOOLEAN, no_turn_mode \in BOOLEAN :
                update(camera, debug_mode, no_turn_mode, Saturate(stable_elapsed + dt)) =>
                    (outcome' \in SettledOutcomes
                        <=> (outcome = "match" \/ dt > DebounceTime))]_vars

\* C20 witness: on a grid that had stood for longer than the debounce time a
\* move was rejected, and the update that followed waited.
C20_Witness ==
    /\ op = "update" /\ outcome = "waiting"
    /\ stable_elapsed <= DebounceTime /\ seen_elapsed > DebounceTime
    /\ camera = last_occupancy_grid
    /\ camera # _get_board_occupancy(board)
    /\ Vacated = {14} /\ Filled = {6}

(***************************************************************************)
(* The claims about what update calls, about sync_board and undo, and      *)
(* about out-of-turn moves, checked under SpecMidgame and Spec.            *)
(***************************************************************************)

\* C24: update invokes no speech output inside its own call, whatever the
\* outcome, a rejected illegal move included: it only returns its result and
\* its log entries.
C24_UpdateSpeaksNothing ==
    op = "update" => spoken = <<>>

\* C27: sync_board replaces the board with the standard starting position
\* and leaves move_list and last_move as they were; on a game with accepted
\* moves move_list then no longer matches the board's move stack, and an
\* undo_last_move that follows returns False and removes nothing from
\* move_list.
C27_SyncKeepsMoveList ==
    [][/\ op' = "sync_board" =>
            /\ board' = StartBoard
            /\ UNCHANGED <<move_list, last_move>>
            /\ move_list # <<>> => Len(board'.move_stack) # Len(move_list')
       /\ (op = "sync_board" /\ move_list # <<>> /\ op' = "undo_last_move") =>
            /\ ret' = "False"
            /\ UNCHANGED <<board, move_list, last_move>>]_vars

\* C27 witness: undo failed on the start position the board was synced to,
\* with an accepted move still in move_list.
C27_Witness ==
    /\ op = "undo_last_move" /\ ret = "False"
    /\ board = StartBoard
    /\ move_list # <<>> /\ last_move = move_list[Len(move_list)]

\* C28: undo_last_move does not touch the stability state. Called on the
\* move update has just accepted, it leaves the debounced grid and the start
\* of the plateau alone, so that with the grid still the post-move grid the
\* next settle finds that grid against the restored board, infers the undone
\* move again and, the move being legal there, applies it again.
C28_UndoneMoveInferredAgain ==
    [][(op = "update" /\ outcome = "accepted" /\ op' = "undo_last_move") =>
          /\ ret' = "True"
          /\ UNCHANGED <<last_occupancy_grid, stable_elapsed>>
          /\ camera' = last_occupancy_grid'
          /\ _infer_move(board', _get_board_occupancy(board'), camera', FALSE).move
                = last_move
          /\ is_legal(board', last_move)]_vars

\* C28 witness: with no hand on the board since 3...b6 was accepted, the
\* move was undone and the next settle accepted it again.
C28_Witness ==
    /\ op = "update" /\ outcome = "accepted"
    /\ commands > 0
    /\ played = LineChanges(CastlingLine)
    /\ move_list = CastlingLine /\ board = After(CastlingLine)

\* The diff has the shape of a capture, of castling or of en passant.
TurnBoundShape ==
    <<Cardinality(Vacated), Cardinality(Filled)>> \in {<<1, 0>>, <<2, 2>>, <<2, 1>>}

\* C29: the candidates of the capture, castling and en-passant cases are
\* drawn from the legal moves of the side to move, with no_turn_mode on as
\* with it off: a move inferred from one of these shapes is made by a piece
\* of the side to move, and an update that settles on one switches no turn.
C29_OutOfTurnNeverInferred ==
    [][(op' = "update" /\ outcome' \in SettledOutcomes /\ TurnBoundShape) =>
          /\ \A debug_mode \in BOOLEAN :
                InferredMove(debug_mode) # NoMove =>
                    piece_color(board.pieces[InferredMove(debug_mode).from_square])
                        = board.turn
          /\ \A i \in DOMAIN logs' :
                logs'[i] \notin {"No Turn Mode: Switching turn to White",
                                 "No Turn Mode: Switching turn to Black"}
          /\ board'.turn = IF outcome' = "accepted" THEN ~board.turn ELSE board.turn]_vars

\* C29 witness: after 1.Nf3 Nc6 2.e3 a6 3.Be2, with Black to move, White's
\* king went to g1 and the rook to f1, which would be legal castling were it
\* White's turn, and update inferred nothing.
C29_Witness ==
    /\ op = "update" /\ outcome = "no_move"
    /\ Vacated = {4, 7} /\ Filled = {5, 6}
    /\ board.turn = BLACK
    /\ is_legal([board EXCEPT !.turn = WHITE], Move(4, 6, 0))


(***************************************************************************)
(* The claims about the HybridManager's debounce, its reset and its        *)
(* processing flag.                                                        *)
(***************************************************************************)
\* The branches of update_board_state that ran move inference on the grid.
InferenceOutcomes == {"accepted", "rejected", "unclear"}

\* C26: a frame runs move inference on a changed grid exactly when that grid
\* has by then been delivered for at least as many frames in a row as the
\* stability threshold says, and never after fewer.
C26_ConfirmedAtThreshold ==
    [][op' = "update_board_state" =>
         (outcome' \in InferenceOutcomes
            <=> /\ seen_frames' >= stability_threshold
                /\ camera # current_stable_grid)]_vars


\* The pieces a grid of YOLO classes shows, square by square.
DetectedPieces(grid) ==
    [s \in SQUARES |->
        LET yolo_class == grid[7 - square_rank(s)][square_file(s)]
        IN  IF \E piece \in 1..14 : piece_type(piece) \in 1..6
                                    /\ class_name(piece) = yolo_class
            THEN CHOOSE piece \in 1..14 : piece_type(piece) \in 1..6
                                          /\ class_name(piece) = yolo_class
            ELSE 0]

\* C25: a reset made while "Auto-sync on Reset" is enabled and YOLO
\* detections are available leaves the board with the pieces the detections
\* show, not with the standard starting position.
C25_ResetSyncsFromCamera ==
    [][(op' = "reset_game" /\ auto_sync_on_reset /\ current_yolo_grid # NoGrid) =>
          board'.pieces = DetectedPieces(current_yolo_grid)]_vars


\* C22: one grid is handled at a time, to completion: a frame delivered while
\* a change is being processed is discarded and changes nothing; never more
\* than one _process_change is in progress; is_processing is true exactly
\* while one is, so it is false again when the call that processed the change
\* returns, also when the processing raised; and that call leaves the grid it
\* processed as the stable one.
C22_OneGridAtATime ==
    [][op' = "update_board_state" =>
         /\ (in_process_change > 0 /\ in_process_change' >= in_process_change) =>
               /\ outcome' = "busy"
               /\ UNCHANGED <<board, game_history, current_stable_grid, pending_grid,
                              stability_counter, is_processing, in_process_change>>
         /\ in_process_change' <= 1
         /\ is_processing' <=> in_process_change' = 1
         /\ outcome' \in InferenceOutcomes \cup {"raised"} =>
               /\ ~is_processing'
               /\ current_stable_grid' = pending_grid']_vars

\* C22: a frame has been discarded while the promotion dialog was open.
C22_Witness ==
    /\ op = "update_board_state" /\ outcome = "busy"
    /\ is_processing /\ in_process_change = 1
    /\ camera = pending_grid /\ camera # current_stable_grid


(***************************************************************************)
(* The claims about the VisionWorker.                                      *)
(***************************************************************************)
\* The calls with which a command changes the chess system or the state.
MutatingCommands ==
    {"command_start_game", "sync_board", "command_stop_game", "command_undo",
     "undo_last_move"}

\* C21: the worker enters GAME only from SETUP and with a calibration made,
\* no step takes it from WAITING to GAME, and update is called on the chess
\* system only while the state is GAME.
C21_GameOnlyAfterCalibration ==
    [][/\ (state # "GAME" /\ state' = "GAME") =>
             (state = "SETUP" /\ calibration_matrix # "None")
       /\ state = "WAITING" => state' # "GAME"
       /\ op' = "update" => state = "GAME"]_vars

\* C23: while the vision thread is at its update no command of the UI
\* thread that changes the game state runs.
C23_CommandsSerializedWithUpdate ==
    [][in_update => ~(commands' = commands + 1 /\ op' \in MutatingCommands)]_vars

\* C30: in GAME a rotation with corners stored, or a calibration that
\* succeeds, puts the worker in SETUP with a calibration and leaves the
\* board and the history as they are; in SETUP update is not called, nothing
\* but the Stop command changes the board or the history, and nothing but
\* command_start_game takes the worker to GAME.
C30_RecalibrationSuspendsGame ==
    [][/\ (state = "GAME"
           /\ \/ op' = "command_rotate" /\ last_raw_corners # "None"
              \/ op' = "run" /\ outcome' = "calibrated") =>
             /\ state' = "SETUP" /\ calibration_matrix' # "None"
             /\ UNCHANGED <<board, move_list, last_move>>
       /\ state = "SETUP" => op' # "update"
       /\ (state = "SETUP" /\ state' = "SETUP" /\ op' # "command_stop_game") =>
             UNCHANGED <<board, move_list, last_move>>
       /\ (state = "SETUP" /\ state' = "GAME") =>
             op' \in {"command_start_game", "sync_board"}]_vars

=============================================================================
